---- MODULE Spec2Model ----
(***************************************************************************)
(* A model of rss-fuse: the inode tree (src/src/fuse/inode.rs), the feed   *)
(* operations of the filesystem (src/src/fuse/filesystem.rs), the mount   *)
(* and unmount flow (src/src/cli/mount.rs, src/src/fuse/operations.rs),    *)
(* the repository (src/src/storage/repository.rs), its caches              *)
(* (src/src/storage/cache.rs) and the snapshot file of the caches          *)
(* (src/src/storage/persistent_cache.rs).                                  *)
(*                                                                         *)
(* Every function of the program that takes a lock is cut into steps, one  *)
(* step per lock acquisition; a thread is a stack of frames, one frame per *)
(* function in progress, and a step of the model is one step of the frame *)
(* on top of one thread's stack.  Code that touches no shared state (a     *)
(* branch on a returned value, the head of a loop, a call, a return) is    *)
(* run together with the step before it (Settle).                          *)
(*                                                                         *)
(* Names are sequences of characters (one string per character; a         *)
(* character outside ASCII is written as its code point, "U+274C"), so     *)
(* that the conversion from a title to a file name can be computed.        *)
(***************************************************************************)
EXTENDS Integers, Sequences, FiniteSets, TLC

VARIABLES
    nodes,            \* InodeManager.nodes: ino -> VNode
    next_ino,         \* InodeManager.next_ino
    name_to_ino,      \* InodeManager.name_to_ino: <<parent_ino, name>> -> ino
    feeds,            \* RssFuseFilesystem.feeds: feed name -> Feed
    loading_status,   \* RssFuseFilesystem.loading_status: feed name -> status
    thr,              \* the threads: thread id -> [stack, ret, last]
    rdr,              \* the reader (kernel side): its position and last listing
    allocated,        \* history: the inos handed out by allocate_ino, in order
    removedNonEmpty,  \* history: remove_node was applied to a node with children
    callers,          \* the threads that issue calls
    opsLeft,          \* calls the callers may still issue
    env,              \* the mount point and the system's mount table
    repo,             \* Repository: feed cache, storage, and the feed's server
    failedOnLoaded,   \* history: a refresh failed while cached content was in the tree
    clock,            \* SystemTime::now(), in ticks
    feed_cache,       \* FeedCache.feeds: feed name -> CacheEntry
    feed_stats,       \* FeedCache.stats
    article_cache,    \* ArticleCache: its configuration and its LruCache
    article_stats,    \* ArticleCache.stats
    disk,             \* the cache directory: feeds_cache.json and feeds_cache.tmp
    uses,             \* history: the article ids by their last insertion or successful read
    obs,              \* history: the last two calls of the storage layer that returned
    commands,         \* history: the functions and external commands unmount has run
    session,          \* the FUSE session: the shutdown signal, the kernel registration
    memory,           \* MemoryStorage: its feeds and its articles
    locks             \* the RwLocks of the inode manager and of the caches, and who is at them

treeVars == <<nodes, next_ino, name_to_ino, feeds, loading_status>>
histVars == <<allocated, removedNonEmpty>>
mountVars == <<env, repo, failedOnLoaded>>
memVars == <<feed_cache, feed_stats, article_cache, article_stats, uses>>
cacheVars == <<clock, memVars, disk, obs>>
restVarsButLocks == <<mountVars, cacheVars, commands, session, memory>>
restVars == <<restVarsButLocks, locks>>
vars == <<nodes, next_ino, name_to_ino, feeds, loading_status, thr, rdr,
          allocated, removedNonEmpty, callers, opsLeft, env, repo, failedOnLoaded,
          clock, feed_cache, feed_stats, article_cache, article_stats, disk, uses, obs,
          commands, session, memory, locks>>

(***************************************************************************)
(* Bounds of the model.                                                    *)
(***************************************************************************)
\* calls issued in one behaviour of Spec
MaxOps == 2
\* calls issued in one behaviour of SpecSeq
MaxSeqOps == 3
\* save_to_disk calls issued in one behaviour of SpecSave
MaxSaves == 2
\* save_to_disk and load calls issued in one behaviour of SpecSnapshot
MaxSnapshotOps == 2
\* the calls of the cache user of SpecCache
MaxCacheOps == 4
\* the calls of the repository user of SpecRepo
MaxRepoOps == 3

(***************************************************************************)
(* Option, Result and map helpers.                                         *)
(***************************************************************************)
None == <<>>
Some(v) == <<v>>
IsSome(o) == Len(o) = 1
Unwrap(o) == o[1]

Ok(v) == [ok |-> TRUE, val |-> v]
Err(e) == [ok |-> FALSE, val |-> e]

Range(s) == {s[i] : i \in DOMAIN s}

EmptyMap == <<>>
MapInsert(m, k, v) == [x \in (DOMAIN m) \cup {k} |-> IF x = k THEN v ELSE m[x]]
MapRemove(m, k) == [x \in (DOMAIN m) \ {k} |-> m[x]]
MapGet(m, k) == IF k \in DOMAIN m THEN Some(m[k]) ELSE None

\* MemoryStorage::new: no feed, no article
NewMemory == [feeds |-> EmptyMap, articles |-> EmptyMap]

\* the locks of InodeManager, RssFuseFilesystem, ArticleCache and FeedCache
LockNames ==
    {"nodes", "name_to_ino", "next_ino", "feeds", "loading_status",
     "article_cache", "article_stats", "feed_cache", "feed_stats"}
LockThreads == {"w1", "w2", "w3"}

\* RwLock::new: no writer, no reader; no thread is in a call
NoLocks ==
    [held |-> [l \in LockNames |-> [writer |-> None, readers |-> {}]],
     run |-> [t \in LockThreads |-> <<>>],
     calls |-> [t \in LockThreads |-> 0]]

(***************************************************************************)
(* Names and articles.                                                     *)
(***************************************************************************)
RootName == <<"/">>
MetaName == <<".", "r", "s", "s", "-", "f", "u", "s", "e">>
LogsName == <<"l", "o", "g", "s">>
CacheName == <<"c", "a", "c", "h", "e">>
ConfigName == <<"c", "o", "n", "f", "i", "g", ".", "t", "o", "m", "l">>
Tech == <<"t", "e", "c", "h">>

\* the feed names the callers use
FeedNames == {Tech}

\* Article: the fields the tree reads (id, title)
Article(id, title) == [id |-> id, title |-> title]
Art(c) == Article(<<"g", "-", c>>, <<c>>)

\* the article lists the callers of Spec pass to add_feed
ArticleLists == {<<Art("A")>>, <<Art("A"), Art("B")>>}

ForbiddenChars == {"/", "\\", ":", "*", "?", "\"", "<", ">", "|"}
ControlChars == {"\n", "\t", "\r"}
TitleLimit == 100
TitleKeep == 97

SanitizeChar(c) == IF c \in ForbiddenChars \cup ControlChars THEN "-" ELSE c

\* Article::markdown_filename
markdown_filename(article) ==
    LET title == [i \in DOMAIN article.title |-> SanitizeChar(article.title[i])]
        truncated == IF Len(title) > TitleLimit
                     THEN SubSeq(title, 1, TitleKeep) \o <<".", ".", ".">>
                     ELSE title
    IN  truncated \o <<".", "m", "d">>

LoadingArticle(feed_name) ==
    Article(<<"l", "o", "a", "d", "i", "n", "g", "-">> \o feed_name,
            <<"U+23F3", " ", "L", "o", "a", "d", "i", "n", "g", " ">>
                \o feed_name \o <<".", ".", ".">>)

ErrorArticle(feed_name) ==
    Article(<<"e", "r", "r", "o", "r", "-">> \o feed_name,
            <<"U+274C", " ", "E", "r", "r", "o", "r", " ",
              "l", "o", "a", "d", "i", "n", "g", " ">>
                \o feed_name)

Feed(name, articles) == [name |-> name, articles |-> articles]

(***************************************************************************)
(* VNode and NodeType.                                                     *)
(***************************************************************************)
NodeType(tag, feed, article) == [tag |-> tag, feed |-> feed, article |-> article]
Root == NodeType("Root", None, None)
FeedDirectory(feed_name) == NodeType("FeedDirectory", Some(feed_name), None)
ArticleFile(feed_name, article) == NodeType("ArticleFile", Some(feed_name), Some(article))
MetaDirectory == NodeType("MetaDirectory", None, None)
ConfigFile == NodeType("ConfigFile", None, None)
LogsDirectory == NodeType("LogsDirectory", None, None)
CacheDirectory == NodeType("CacheDirectory", None, None)

DirectoryTags == {"Root", "FeedDirectory", "MetaDirectory", "LogsDirectory", "CacheDirectory"}

\* VNode::new
VNode(ino, parent_ino, name, node_type) ==
    [ino |-> ino, parent_ino |-> parent_ino, name |-> name, node_type |-> node_type,
     file_type |-> IF node_type.tag \in DirectoryTags THEN "Directory" ELSE "RegularFile",
     children |-> <<>>]

is_directory(node) == node.file_type = "Directory"

\* a parent that does not record the child
add_child_forgets(node, child_ino) == node

\* VNode::add_child
add_child(node, child_ino) ==
    IF child_ino \in Range(node.children) THEN node
    ELSE [node EXCEPT !.children = Append(@, child_ino)]

\* VNode::remove_child
remove_child(node, child_ino) ==
    [node EXCEPT !.children = SelectSeq(@, LAMBDA i : i # child_ino)]

(***************************************************************************)
(* InodeManager: the reads.  Each takes its locks once, so it is atomic.   *)
(***************************************************************************)
RootIno == 1
FirstIno == 2

get_node(ino) == MapGet(nodes, ino)

get_node_by_name(parent_ino, name) ==
    IF <<parent_ino, name>> \in DOMAIN name_to_ino
    THEN MapGet(nodes, name_to_ino[<<parent_ino, name>>])
    ELSE None

list_children(parent_ino) ==
    IF parent_ino \in DOMAIN nodes
    THEN LET present == SelectSeq(nodes[parent_ino].children,
                                  LAMBDA c : c \in DOMAIN nodes)
         IN  [i \in DOMAIN present |-> nodes[present[i]]]
    ELSE <<>>

(***************************************************************************)
(* Frames.                                                                 *)
(***************************************************************************)
CreateNodeFrame(parent_ino, name, node_type) ==
    [fn |-> "create_node", pc |-> "get_parent", parent_ino |-> parent_ino,
     name |-> name, node_type |-> node_type, ino |-> None]

RemoveNodeFrame(ino) ==
    [fn |-> "remove_node", pc |-> "get_node", ino |-> ino, node |-> None]

\* InodeManager::create_feed_directory
CreateFeedDirectoryFrame(feed_name) ==
    CreateNodeFrame(RootIno, feed_name, FeedDirectory(feed_name))

CreateArticleFileFrame(feed_name, article) ==
    [fn |-> "create_article_file", pc |-> "lookup", feed_name |-> feed_name,
     article |-> article]

RemoveFeedFrame(feed_name) ==
    [fn |-> "remove_feed", pc |-> "lookup", feed_name |-> feed_name,
     feed_node |-> None, children |-> <<>>]

AddLoadingPlaceholderFrame(feed_name) ==
    [fn |-> "add_loading_placeholder", pc |-> "status", feed_name |-> feed_name]

AddErrorPlaceholderFrame(feed_name, error_message) ==
    [fn |-> "add_error_placeholder", pc |-> "status", feed_name |-> feed_name,
     error_message |-> error_message]

\* dir_before is history: the feed directory's ino when the call was made
AddFeedFrame(feed, dir_before) ==
    [fn |-> "add_feed", pc |-> "status", feed |-> feed, articles |-> feed.articles,
     dir_before |-> dir_before]

(***************************************************************************)
(* Threads.                                                                *)
(***************************************************************************)
Writers == {"w1", "w2"}
\* the mount command, the tasks it spawns, the task of one periodic refresh, and the
\* thread of the FUSE session
Tasks == {"main", "cache", "bg", "per", "ptask", "autosave", "fuse"}
Threads == Writers \cup Tasks

NoCall == [fn |-> "none"]
IdleThread == [stack |-> <<>>, ret |-> Ok(None), last |-> [call |-> NoCall, ret |-> Ok(None)]]

Idle(th) == Len(th.stack) = 0
Top(th) == th.stack[Len(th.stack)]
SetTop(th, f) == [th EXCEPT !.stack = [@ EXCEPT ![Len(@)] = f]]
\* the caller continues at frame f once the callee returns
Call(th, f, callee) == [th EXCEPT !.stack = Append([@ EXCEPT ![Len(@)] = f], callee)]
Push(th, callee) == [th EXCEPT !.stack = Append(@, callee)]
Return(th, v) ==
    [th EXCEPT !.stack = SubSeq(@, 1, Len(@) - 1),
               !.ret = v,
               !.last = IF Len(th.stack) = 1 THEN [call |-> Top(th), ret |-> v] ELSE @]

(***************************************************************************)
(* The FUSE session: whether the shutdown signal (Ctrl+C) has been sent,   *)
(* what fuser::mount2 has answered (None while it has not), and the        *)
(* filesystem value handed to fuser::mount2 (None before the mount): the   *)
(* clone FuseOperations::mount makes, which shares the inode manager and   *)
(* owns copies of the feeds map and of the loading-status map.             *)
(***************************************************************************)
NoSession == [signalled |-> FALSE, registered |-> None, fs |-> None]

\* impl Clone for RssFuseFilesystem, less the shared inode manager
CloneOf(feed_map, status_map) == [feeds |-> feed_map, loading_status |-> status_map]

(***************************************************************************)
(* The mount point, as the system calls of the mount command see it.       *)
(***************************************************************************)
\* what reading the directory can answer
ReadDirResults == {"ok", "ENOENT", "ENOTDIR", "EACCES", "ENOTCONN", "ESTALE", "EIO"}
\* "transport endpoint is not connected", "stale file handle", "input/output error"
StaleErrors == {"ENOTCONN", "ESTALE", "EIO"}
\* how the mount table can be read: /proc/mounts, the mount command, or neither
TableSources == {"proc", "mount_cmd", "none"}

Environments ==
    [listed : BOOLEAN, table : TableSources, exists : BOOLEAN, is_dir : BOOLEAN,
     read_dir : ReadDirResults, creatable : BOOLEAN]

\* the combinations a system can show for one path
PossibleEnvironment(e) ==
    /\ e.is_dir => e.exists
    /\ e.creatable => (~e.exists /\ e.read_dir = "ENOENT")
    /\ (~e.exists) => e.read_dir \in {"ENOENT"} \cup StaleErrors
    /\ (e.exists /\ ~e.is_dir) => e.read_dir = "ENOTDIR"
    /\ (e.exists /\ e.is_dir) => e.read_dir \in {"ok", "EACCES"} \cup StaleErrors
    /\ e.read_dir \in {"ENOENT", "ENOTDIR"} => ~e.listed
    /\ e.read_dir \in {"ENOTCONN", "ESTALE"} => e.listed

\* an empty directory nothing is mounted on
PlainDirectory(e) ==
    [e EXCEPT !.listed = FALSE, !.exists = TRUE, !.is_dir = TRUE, !.read_dir = "ok",
              !.creatable = FALSE]

\* FuseOperations::is_mounted
is_mounted(e) ==
    CASE e.table = "proc" -> e.listed
      [] e.table = "mount_cmd" -> e.listed
      [] OTHER -> FALSE

\* FuseOperations::is_mount_stale
is_mount_stale(e) ==
    IF ~is_mounted(e) THEN FALSE
    ELSE IF e.read_dir = "ok" THEN FALSE
    ELSE e.read_dir \in StaleErrors

\* FuseOperations::validate_mount_point_internal: its result and the mount point after
validate_mount_point_internal(e) ==
    IF ~e.exists /\ ~e.creatable THEN [res |-> Err("PermissionDenied"), env |-> e]
    ELSE LET e1 == IF ~e.exists THEN PlainDirectory(e) ELSE e IN
         [res |-> IF ~e1.is_dir THEN Err("InvalidState")
                  ELSE IF e1.read_dir # "ok" THEN Err("PermissionDenied")
                  ELSE IF is_mounted(e1) THEN Err("AlreadyExists")
                  ELSE Ok(None),
          env |-> e1]

\* FuseOperations::cleanup_stale_mount, given what the two unmount commands answer
cleanup_stale_mount(e, lazy_ok, force_ok) ==
    IF lazy_ok THEN [res |-> Ok(None), env |-> PlainDirectory(e)]
    ELSE IF force_ok THEN [res |-> Ok(None), env |-> PlainDirectory(e)]
    ELSE [res |-> Err("Fuse"), env |-> e]

(***************************************************************************)
(* Time.  The clock counts ticks of half a second; the persistent cache    *)
(* keeps whole seconds (Duration::as_secs).                                *)
(***************************************************************************)
TicksPerSec == 2
as_secs(t) == t \div TicksPerSec
from_secs(s) == s * TicksPerSec

\* CacheConfig.default_ttl, in ticks
default_ttl == 3
\* the clock stops here
MaxClock == 5

(***************************************************************************)
(* CacheEntry and CacheStats (src/src/storage/cache.rs).                   *)
(***************************************************************************)
CacheEntry(data, now, ttl) ==
    [data |-> data, created_at |-> now, expires_at |-> now + ttl,
     access_count |-> 0, last_accessed |-> now]

is_expired_never(entry, now) == FALSE

is_expired(entry, now) == now > entry.expires_at

access(entry, now) == [entry EXCEPT !.access_count = @ + 1, !.last_accessed = now]

CacheStats == [hits |-> 0, misses |-> 0, evictions |-> 0, expirations |-> 0,
               total_entries |-> 0]
record_hit(st) == [st EXCEPT !.hits = @ + 1]
record_miss(st) == [st EXCEPT !.misses = @ + 1]
record_eviction(st) == [st EXCEPT !.evictions = @ + 1]
record_expiration(st) == [st EXCEPT !.expirations = @ + 1]

MapLen(m) == Cardinality(DOMAIN m)

(***************************************************************************)
(* FeedCache: a HashMap behind one lock; every operation is one critical   *)
(* section and gives the new map, the new statistics and its result.       *)
(***************************************************************************)
\* finds nothing
FeedCache_get_misses(fc, st, feed_name, now) ==
    [feeds |-> fc, stats |-> record_miss(st), ret |-> None]

FeedCache_get(fc, st, feed_name, now) ==
    IF feed_name \in DOMAIN fc
    THEN IF is_expired(fc[feed_name], now)
         THEN LET rest == MapRemove(fc, feed_name) IN
              [feeds |-> rest,
               stats |-> [record_miss(record_expiration(st)) EXCEPT
                             !.total_entries = MapLen(rest)],
               ret |-> None]
         ELSE [feeds |-> [fc EXCEPT ![feed_name] = access(@, now)],
               stats |-> record_hit(st),
               ret |-> Some(fc[feed_name].data)]
    ELSE [feeds |-> fc, stats |-> record_miss(st), ret |-> None]

\* a put that keeps nothing
FeedCache_put_forgets(fc, st, feed_name, feed, now) ==
    [feeds |-> fc, stats |-> st, ret |-> Ok(None)]

FeedCache_put(fc, st, feed_name, feed, now) ==
    LET new == MapInsert(fc, feed_name, CacheEntry(feed, now, default_ttl)) IN
    [feeds |-> new, stats |-> [st EXCEPT !.total_entries = MapLen(new)], ret |-> Ok(None)]

FeedCache_remove(fc, st, feed_name) ==
    LET rest == MapRemove(fc, feed_name) IN
    [feeds |-> rest, stats |-> [st EXCEPT !.total_entries = MapLen(rest)],
     ret |-> IF feed_name \in DOMAIN fc THEN Some(fc[feed_name].data) ELSE None]

FeedCache_cleanup_expired(fc, st, now) ==
    LET expired_keys == {k \in DOMAIN fc : is_expired(fc[k], now)}
        rest == [k \in (DOMAIN fc) \ expired_keys |-> fc[k]]
    IN  [feeds |-> rest,
         stats |-> [st EXCEPT !.expirations = @ + Cardinality(expired_keys),
                              !.total_entries = MapLen(rest)],
         ret |-> Cardinality(expired_keys)]

(***************************************************************************)
(* LruCache (the lru crate): the entries from the most recently used to    *)
(* the least recently used, and the capacity.                              *)
(***************************************************************************)
\* NonZeroUsize::new(1000).unwrap(), the capacity when max_entries is 0
DefaultCapacity == 1000

LruKeys(lru) == {lru[i].key : i \in DOMAIN lru}
LruIndex(lru, key) == CHOOSE i \in DOMAIN lru : lru[i].key = key
LruWithout(lru, i) == SubSeq(lru, 1, i - 1) \o SubSeq(lru, i + 1, Len(lru))
LruPeek(lru, key) == lru[LruIndex(lru, key)].entry

\* LruCache::pop
LruPop(lru, key) ==
    IF key \in LruKeys(lru) THEN LruWithout(lru, LruIndex(lru, key)) ELSE lru

\* LruCache::get_mut leaves the entry where it was
LruPromoteNot(lru, key) == lru

\* LruCache::get_mut: the entry becomes the most recently used
LruPromote(lru, key) ==
    LET i == LruIndex(lru, key) IN <<lru[i]>> \o LruWithout(lru, i)

\* LruCache::put: replaces the value of a key it holds, else inserts and, when
\* full, drops the least recently used entry
LruPut(lru, cap, key, entry) ==
    IF key \in LruKeys(lru)
    THEN [lru |-> <<[key |-> key, entry |-> entry]>> \o LruPop(lru, key),
          old |-> Some(LruPeek(lru, key))]
    ELSE [lru |-> <<[key |-> key, entry |-> entry]>>
                    \o (IF Len(lru) >= cap THEN SubSeq(lru, 1, cap - 1) ELSE lru),
          old |-> None]

(***************************************************************************)
(* ArticleCache.                                                           *)
(***************************************************************************)
\* ArticleCache::new
ArticleCache_new(max_entries) ==
    [max_entries |-> max_entries,
     cap |-> IF max_entries = 0 THEN DefaultCapacity ELSE max_entries,
     lru |-> <<>>]

ArticleCache_get(ac, st, article_id, now) ==
    IF article_id \in LruKeys(ac.lru)
    THEN LET promoted == LruPromote(ac.lru, article_id)
             entry == LruPeek(ac.lru, article_id)
         IN  IF is_expired(entry, now)
             THEN LET rest == LruPop(promoted, article_id) IN
                  [cache |-> [ac EXCEPT !.lru = rest],
                   stats |-> [record_miss(record_expiration(st)) EXCEPT
                                 !.total_entries = Len(rest)],
                   ret |-> None]
             ELSE [cache |-> [ac EXCEPT !.lru =
                                [promoted EXCEPT ![LruIndex(promoted, article_id)].entry =
                                                     access(@, now)]],
                   stats |-> record_hit(st),
                   ret |-> Some(entry.data)]
    ELSE [cache |-> ac, stats |-> record_miss(st), ret |-> None]

ArticleCache_put(ac, st, article_id, article, now) ==
    LET put == LruPut(ac.lru, ac.cap, article_id, CacheEntry(article, now, default_ttl)) IN
    [cache |-> [ac EXCEPT !.lru = put.lru],
     stats |-> [(IF IsSome(put.old) THEN record_eviction(st) ELSE st) EXCEPT
                   !.total_entries = Len(put.lru)],
     ret |-> Ok(None)]

ArticleCache_remove(ac, st, article_id) ==
    LET rest == LruPop(ac.lru, article_id) IN
    [cache |-> [ac EXCEPT !.lru = rest],
     stats |-> [st EXCEPT !.total_entries = Len(rest)],
     ret |-> IF article_id \in LruKeys(ac.lru)
             THEN Some(LruPeek(ac.lru, article_id).data) ELSE None]

RECURSIVE LruRetain(_, _)
LruRetain(lru, keep) ==
    IF lru = <<>> THEN <<>>
    ELSE (IF Head(lru).key \in keep THEN <<Head(lru)>> ELSE <<>>)
             \o LruRetain(Tail(lru), keep)

ArticleCache_cleanup_expired(ac, st, now) ==
    LET expired_keys == {k \in LruKeys(ac.lru) : is_expired(LruPeek(ac.lru, k), now)}
        rest == LruRetain(ac.lru, LruKeys(ac.lru) \ expired_keys)
    IN  [cache |-> [ac EXCEPT !.lru = rest],
         stats |-> [st EXCEPT !.expirations = @ + Cardinality(expired_keys),
                              !.total_entries = Len(rest)],
         ret |-> Cardinality(expired_keys)]

\* the article ids by their last insertion or successful read, the latest last
Touch(us, article_id) ==
    SelectSeq(us, LAMBDA k : k # article_id) \o <<article_id>>

(***************************************************************************)
(* PersistentCache (src/src/storage/persistent_cache.rs): the document and *)
(* the two files.  A file is an inode: what a writer holds open stays the  *)
(* same file when its name changes.  The content of a file is the chunks   *)
(* written into it; fs::write writes a document in NChunks chunks.         *)
(***************************************************************************)
NChunks == 2
\* PersistentCacheConfig.max_age_days and the seconds of a day, scaled
max_age_days == 1
SecsPerDay == 1

SerializableCacheEntry(entry) ==
    [data |-> entry.data,
     created_at |-> as_secs(entry.created_at),
     expires_at |-> as_secs(entry.expires_at),
     access_count |-> entry.access_count,
     last_accessed |-> as_secs(entry.last_accessed)]

\* From<SerializableCacheEntry<T>> for CacheEntry<T>
FromSerializable(entry) ==
    [data |-> entry.data,
     created_at |-> from_secs(entry.created_at),
     expires_at |-> from_secs(entry.expires_at),
     access_count |-> entry.access_count,
     last_accessed |-> from_secs(entry.last_accessed)]

\* the article map save_to_disk builds from the LruCache
ArticleMap(lru) == [k \in LruKeys(lru) |-> LruPeek(lru, k)]

\* PersistentCache::save, up to the document it serializes
PersistentCacheData(feed_entries, article_entries, now) ==
    LET fk == {k \in DOMAIN feed_entries : ~is_expired(feed_entries[k], now)}
        ak == {k \in DOMAIN article_entries : ~is_expired(article_entries[k], now)}
    IN  [feeds |-> [k \in fk |-> SerializableCacheEntry(feed_entries[k])],
         articles |-> [k \in ak |-> SerializableCacheEntry(article_entries[k])],
         cache_version |-> 1,
         saved_at |-> as_secs(now)]

\* a chunk of a document, and the chunk of a hole (a write beyond the end)
Chunk(doc, k) == [doc |-> Some(doc), part |-> k]
Hole == [doc |-> None, part |-> 0]
FileContent(doc) == [k \in 1..NChunks |-> Chunk(doc, k)]

\* write the chunk k of a document at its place in a file
WriteAt(content, doc, k) ==
    [i \in 1..(IF Len(content) > k THEN Len(content) ELSE k) |->
        IF i = k THEN Chunk(doc, k)
        ELSE IF i <= Len(content) THEN content[i] ELSE Hole]

\* serde_json::from_str: the file is a document when it is all of one document
Parse(content) ==
    IF /\ Len(content) = NChunks
       /\ IsSome(content[1].doc)
       /\ \A k \in 1..NChunks : content[k] = Chunk(Unwrap(content[1].doc), k)
    THEN Ok(Unwrap(content[1].doc))
    ELSE Err("Serialization")

Inodes == 1..4
NoDisk == [cache_file |-> None, tmp |-> None, data |-> EmptyMap]
DiskWith(content) ==
    [cache_file |-> Some(1), tmp |-> None, data |-> MapInsert(EmptyMap, 1, content)]

\* the files that have a name or are held open stay; the others are gone
Collect(d, open) ==
    [d EXCEPT !.data = [i \in {j \in DOMAIN d.data :
                                  Some(j) \in {d.cache_file, d.tmp} \/ j \in open}
                           |-> d.data[i]]]

\* File::create(temp_file): the file of that name emptied, or a new file
CreateTemp(d) ==
    IF IsSome(d.tmp)
    THEN [disk |-> [d EXCEPT !.data[Unwrap(d.tmp)] = <<>>], fd |-> Unwrap(d.tmp)]
    ELSE LET i == CHOOSE j \in Inodes \ DOMAIN d.data :
                      \A k \in Inodes \ DOMAIN d.data : j <= k
         IN  [disk |-> [d EXCEPT !.tmp = Some(i), !.data = MapInsert(@, i, <<>>)],
              fd |-> i]

\* fs::rename(temp_file, cache_file)
Rename(d) ==
    IF IsSome(d.tmp)
    THEN [res |-> Ok(None), disk |-> [d EXCEPT !.cache_file = d.tmp, !.tmp = None]]
    ELSE [res |-> Err("Storage"), disk |-> d]

\* PersistentCache::load
load(d, now) ==
    IF ~IsSome(d.cache_file) THEN Ok(None)
    ELSE LET parsed == Parse(d.data[Unwrap(d.cache_file)]) IN
         IF ~parsed.ok THEN parsed
         ELSE LET cache_data == parsed.val
                  cache_age == as_secs(now) - cache_data.saved_at
                  max_age_seconds == max_age_days * SecsPerDay
                  retain(m) == [k \in {x \in DOMAIN m : m[x].expires_at > as_secs(now)}
                                   |-> m[k]]
              IN  IF cache_age > max_age_seconds THEN Ok(None)
                  ELSE Ok(Some([cache_data EXCEPT !.feeds = retain(@),
                                                  !.articles = retain(@)]))

(***************************************************************************)
(* CacheManager::with_persistence: the caches as load_from_disk fills them *)
(* from the document on the disk.  A HashMap is walked in any order: the   *)
(* articles of the document are put in the order given.                    *)
(***************************************************************************)
\* cache_config.max_entries of the mount command
MountMaxEntries == 1000

Orders(S) == {sq \in [1..Cardinality(S) -> S] : \A i, j \in DOMAIN sq : sq[i] = sq[j] => i = j}

RECURSIVE PutArticles(_, _, _, _)
PutArticles(st, order, entries, now) ==
    IF order = <<>> THEN st
    ELSE LET article_id == Head(order)
             p == ArticleCache_put(st.article_cache, st.article_stats, article_id,
                                   entries[article_id].data, now)
         IN  PutArticles([st EXCEPT !.article_cache = p.cache, !.article_stats = p.stats,
                                    !.uses = Touch(@, article_id)],
                         Tail(order), entries, now)

RECURSIVE PutFeeds(_, _, _, _)
PutFeeds(st, names, entries, now) ==
    IF names = {} THEN st
    ELSE LET feed_name == CHOOSE n \in names : TRUE
             p == FeedCache_put(st.feed_cache, st.feed_stats, feed_name,
                                entries[feed_name].data, now)
         IN  PutFeeds([st EXCEPT !.feed_cache = p.feeds, !.feed_stats = p.stats],
                      names \ {feed_name}, entries, now)

\* CacheManager::new: the empty caches
NewCaches(max_entries) ==
    [feed_cache |-> EmptyMap, feed_stats |-> CacheStats,
     article_cache |-> ArticleCache_new(max_entries), article_stats |-> CacheStats,
     uses |-> <<>>]

\* the entries of a loaded document that load_from_disk puts into a cache
Unexpired(entries, now) ==
    {k \in DOMAIN entries : ~is_expired(FromSerializable(entries[k]), now)}

\* the orders in which load_from_disk may walk the articles of the disk's document
LoadOrders(d, now) ==
    LET l == load(d, now) IN
    IF l.ok /\ IsSome(l.val) THEN Orders(Unexpired(Unwrap(l.val).articles, now))
    ELSE {<<>>}

with_persistence(max_entries, d, now, order) ==
    LET l == load(d, now) IN
    IF ~l.ok THEN [res |-> l, caches |-> NewCaches(max_entries)]
    ELSE IF ~IsSome(l.val) THEN [res |-> Ok(None), caches |-> NewCaches(max_entries)]
    ELSE LET cache_data == Unwrap(l.val) IN
         [res |-> Ok(None),
          caches |-> PutArticles(
                        PutFeeds(NewCaches(max_entries),
                                 Unexpired(cache_data.feeds, now), cache_data.feeds, now),
                        order, cache_data.articles, now)]

(***************************************************************************)
(* The repository: the caches (feed_cache, article_cache), the persistent   *)
(* cache (disk), the in-memory storage, and the server of the feed.        *)
(***************************************************************************)
ConfigFeeds == <<Tech>>
CachedArticles == <<Art("A")>>
FetchedArticles == <<Art("B")>>

\* what the server answers to the fetches to come; the last answer repeats
FetchScripts == {<<"fails">>, <<"ok", "fails">>}
FetchOutcome(r) == Head(r.fetcher)
AfterFetch(r) == [r EXCEPT !.fetcher = IF Len(@) > 1 THEN Tail(@) ELSE @]

\* Repository::refresh_feed_background: what it makes of refresh_feed's result
refresh_feed_background_empties(name, refreshed) ==
    Ok(Some(Feed(name, <<>>)))

\* passes the error of refresh_feed on
refresh_feed_background_raises(name, refreshed) ==
    IF refreshed.ok THEN Ok(Some(refreshed.val)) ELSE refreshed

refresh_feed_background(name, refreshed) ==
    IF refreshed.ok THEN Ok(Some(refreshed.val)) ELSE Ok(None)

\* Repository::get_feed_from_cache_or_storage (get_feed, load_feed_cache_first)
GetFeedFrame(name) ==
    [fn |-> "get_feed_from_cache_or_storage", pc |-> "cache_get", name |-> name,
     feed |-> None]

\* Repository::store_feed_in_cache_and_storage (save_feed, update_feed); prev is
\* history: the call of the thread that returned before this one
SaveFeedFrame(feed, prev) ==
    [fn |-> "save_feed", pc |-> "cache_put", feed |-> feed, articles |-> feed.articles,
     prev |-> prev]

\* Repository::refresh_feed, called by refresh_feed_background
RefreshFeedBackgroundFrame(name) ==
    [fn |-> "refresh_feed_background", pc |-> "fetch", name |-> name, feed |-> None,
     articles |-> <<>>]

\* CacheManager::save_to_disk and the PersistentCache::save it runs
SaveToDiskFrame ==
    [fn |-> "save_to_disk", pc |-> "feeds_read", feeds |-> EmptyMap,
     articles |-> EmptyMap, doc |-> None, fd |-> None, k |-> 1]

\* the task of CacheManager::enable_auto_save
AutoSaveFrame ==
    [fn |-> "auto_save", pc |-> "tick"]

\* RssFuseFilesystem::add_feed_from_cache: replaces the feed's subtree, sets Loaded
AddFeedFromCacheFrame(feed, from_cache) == AddFeedFrame(feed, None)

(***************************************************************************)
(* The mount command and the tasks it spawns.                              *)
(***************************************************************************)
MountFrame ==
    [fn |-> "mount", pc |-> "is_mounted", e |-> None, feeds_left |-> ConfigFeeds]
CacheLoadFrame ==
    [fn |-> "cache_load", pc |-> "next", feeds_left |-> ConfigFeeds]
BgRefreshFrame ==
    [fn |-> "bg_refresh", pc |-> "sleep", feeds_left |-> ConfigFeeds, name |-> None,
     e |-> None]
PeriodicFrame ==
    [fn |-> "periodic", pc |-> "warmup"]
PeriodicRefreshFrame(name) ==
    [fn |-> "periodic_refresh", pc |-> "start", name |-> name]

\* mount_foreground: what FuseOperations::mount, wait_for_shutdown, save_cache
\* and unmount have returned to it
MountForegroundFrame ==
    [fn |-> "mount_foreground", pc |-> "mount", mounted |-> None, heard |-> None,
     saved |-> None, unmounted |-> None]
\* the thread FuseOperations::mount spawns: fuser::mount2
FuseSessionFrame ==
    [fn |-> "fuse_session", pc |-> "mount2"]

\* mount_foreground passes a failed unmount on
shutdown_raises(saved, unmounted) == IF unmounted.ok THEN Ok(None) ELSE unmounted

\* mount_foreground after the shutdown: both results are only logged; Ok(())
shutdown_result(saved, unmounted) == Ok(None)

\* FuseOperations::unmount; existed, mounted and busy are what it has seen
UnmountFrame(force) ==
    [fn |-> "unmount", pc |-> "exists", force |-> force, attempt |-> 1,
     existed |-> None, mounted |-> None, busy |-> None]

(***************************************************************************)
(* Settle: the code of the top frame that touches no shared state.         *)
(***************************************************************************)
RECURSIVE Settle(_)
Settle(th) ==
    IF Idle(th) THEN th
    ELSE LET f == Top(th) IN
      CASE f.fn = "remove_feed" /\ f.pc = "children" ->
             \* for child in children { remove_node(child.ino) }; remove_node(feed_node.ino)
             IF f.children # <<>>
             THEN Settle(Call(th, [f EXCEPT !.children = Tail(@)],
                              RemoveNodeFrame(Head(f.children))))
             ELSE Settle(Call(th, [f EXCEPT !.pc = "feeds"],
                              RemoveNodeFrame(Unwrap(f.feed_node).ino)))
        [] f.fn = "create_article_file" /\ f.pc = "after_mkdir" ->
             \* None => self.create_feed_directory(feed_name)?
             IF th.ret.ok
             THEN Settle(Call(th, [f EXCEPT !.pc = "ret"],
                              CreateNodeFrame(th.ret.val, markdown_filename(f.article),
                                              ArticleFile(f.feed_name, f.article))))
             ELSE Settle(Return(th, th.ret))
        [] f.fn = "create_article_file" /\ f.pc = "ret" ->
             Settle(Return(th, th.ret))
        [] f.fn = "add_loading_placeholder" /\ f.pc = "after_mkdir" ->
             IF th.ret.ok
             THEN Settle(Call(th, [f EXCEPT !.pc = "done"],
                              CreateArticleFileFrame(f.feed_name, LoadingArticle(f.feed_name))))
             ELSE Settle(Return(th, Err("Fuse")))
        [] f.fn = "add_loading_placeholder" /\ f.pc = "done" ->
             Settle(Return(th, Ok(None)))
        [] f.fn = "add_error_placeholder" /\ f.pc = "mkdir" ->
             Settle(Call(th, [f EXCEPT !.pc = "after_mkdir"],
                         CreateFeedDirectoryFrame(f.feed_name)))
        [] f.fn = "add_error_placeholder" /\ f.pc = "after_mkdir" ->
             IF th.ret.ok
             THEN Settle(Call(th, [f EXCEPT !.pc = "done"],
                              CreateArticleFileFrame(f.feed_name, ErrorArticle(f.feed_name))))
             ELSE Settle(Return(th, Err("Fuse")))
        [] f.fn = "add_error_placeholder" /\ f.pc = "done" ->
             Settle(Return(th, Ok(None)))
        [] f.fn = "add_feed" /\ f.pc = "mkdir" ->
             Settle(Call(th, [f EXCEPT !.pc = "articles"],
                         CreateFeedDirectoryFrame(f.feed.name)))
        [] f.fn = "add_feed" /\ f.pc = "articles" ->
             \* for article in &feed.articles { create_article_file(...) }
             IF f.articles # <<>>
             THEN Settle(Call(th, [f EXCEPT !.articles = Tail(@)],
                              CreateArticleFileFrame(f.feed.name, Head(f.articles))))
             ELSE SetTop(th, [f EXCEPT !.pc = "store"])
        [] f.fn = "mount" /\ f.pc = "placeholders" ->
             \* for (name, _url) in &config.feeds { add_loading_placeholder(name) }
             IF f.feeds_left # <<>>
             THEN Settle(Call(th, [f EXCEPT !.feeds_left = Tail(@)],
                              AddLoadingPlaceholderFrame(Head(f.feeds_left))))
             ELSE SetTop(th, [f EXCEPT !.pc = "spawn"])
        [] f.fn = "cache_load" /\ f.pc = "next" ->
             \* for (name, url) in &cache_config.feeds { load_feed_cache_first(name, url) }
             IF f.feeds_left # <<>>
             THEN Settle(Call(th, [f EXCEPT !.pc = "loaded", !.feeds_left = Tail(@)],
                              GetFeedFrame(Head(f.feeds_left))))
             ELSE Settle(Return(th, Ok(None)))
        [] f.fn = "cache_load" /\ f.pc = "loaded" ->
             IF th.ret.ok /\ IsSome(th.ret.val)
             THEN Settle(Call(th, [f EXCEPT !.pc = "next"],
                              AddFeedFromCacheFrame(Unwrap(th.ret.val), TRUE)))
             ELSE Settle(SetTop(th, [f EXCEPT !.pc = "next"]))
        [] f.fn = "bg_refresh" /\ f.pc = "next" ->
             \* for (name, url) in &refresh_config.feeds { refresh_feed_background(name, url) }
             IF f.feeds_left # <<>>
             THEN Settle(Call(th, [f EXCEPT !.pc = "refreshed", !.feeds_left = Tail(@),
                                            !.name = Some(Head(f.feeds_left))],
                              RefreshFeedBackgroundFrame(Head(f.feeds_left))))
             ELSE Settle(Return(th, Ok(None)))
        [] f.fn = "bg_refresh" /\ f.pc = "refreshed" ->
             IF th.ret.ok /\ IsSome(th.ret.val)
             THEN Settle(Call(th, [f EXCEPT !.pc = "next"],
                              AddFeedFromCacheFrame(Unwrap(th.ret.val), FALSE)))
             ELSE IF th.ret.ok
             THEN Settle(SetTop(th, [f EXCEPT !.pc = "next"]))
             ELSE Settle(Call(th, [f EXCEPT !.pc = "err_get", !.e = Some(th.ret.val)],
                              GetFeedFrame(Unwrap(f.name))))
        [] f.fn = "bg_refresh" /\ f.pc = "err_get" ->
             \* if refresh_repo.get_feed(name).await.unwrap_or(None).is_none()
             IF th.ret.ok /\ IsSome(th.ret.val)
             THEN Settle(SetTop(th, [f EXCEPT !.pc = "next"]))
             ELSE Settle(Call(th, [f EXCEPT !.pc = "next"],
                              AddErrorPlaceholderFrame(Unwrap(f.name), Unwrap(f.e))))
        [] f.fn = "refresh_feed_background" /\ f.pc = "save" ->
             \* if let Err(e) = self.save_cache() { warn } else { debug }
             Settle(Call(th, [f EXCEPT !.pc = "saved"], SaveToDiskFrame))
        [] f.fn = "refresh_feed_background" /\ f.pc = "saved" ->
             Settle(Return(th, refresh_feed_background(f.name, Ok(Unwrap(f.feed)))))
        [] f.fn = "auto_save" /\ f.pc = "saved" ->
             \* if let Err(e) = manager.save_to_disk() { warn }
             SetTop(th, [f EXCEPT !.pc = "tick"])
        [] f.fn = "mount_foreground" /\ f.pc = "saved" ->
             \* if let Err(e) = repo.save_cache() { warn }; fuse_ops.unmount(&mount_point, false)
             Settle(Call(th, [f EXCEPT !.pc = "unmounted", !.saved = Some(th.ret)],
                         UnmountFrame(FALSE)))
        [] f.fn = "mount_foreground" /\ f.pc = "unmounted" ->
             \* if let Err(e) = fuse_ops.unmount(..) { warn }; Ok(())
             Settle(Return(SetTop(th, [f EXCEPT !.unmounted = Some(th.ret)]),
                           shutdown_result(Unwrap(f.saved), th.ret)))
        [] f.fn = "periodic_refresh" /\ f.pc = "start" ->
             Settle(Call(th, [f EXCEPT !.pc = "refreshed"],
                         RefreshFeedBackgroundFrame(f.name)))
        [] f.fn = "periodic_refresh" /\ f.pc = "refreshed" ->
             IF th.ret.ok /\ IsSome(th.ret.val)
             THEN Settle(Call(th, [f EXCEPT !.pc = "done"],
                              AddFeedFromCacheFrame(Unwrap(th.ret.val), FALSE)))
             ELSE Settle(Return(th, Ok(None)))
        [] f.fn = "periodic_refresh" /\ f.pc = "done" ->
             Settle(Return(th, Ok(None)))
        [] OTHER -> th

(***************************************************************************)
(* Loading status.                                                         *)
(***************************************************************************)
Loading == [tag |-> "Loading", msg |-> None]
Loaded == [tag |-> "Loaded", msg |-> None]
Error(msg) == [tag |-> "Error", msg |-> Some(msg)]

(***************************************************************************)
(* InodeManager: the writes.                                               *)
(***************************************************************************)
\* a counter that allocate_ino leaves where it was
NextInoStuck(n) == n

\* allocate_ino: the value of the counter after one allocation
NextInoAfter(n) == n + 1

\* create_node, under nodes.write(): insert the node, add it to its parent
InsertNode(ns, node) ==
    LET inserted == MapInsert(ns, node.ino, node)
    IN  IF node.parent_ino \in DOMAIN inserted
        THEN [inserted EXCEPT ![node.parent_ino] = add_child(@, node.ino)]
        ELSE inserted

\* create_node, under name_to_ino.write()
IndexInsert(index, parent_ino, name, ino) == MapInsert(index, <<parent_ino, name>>, ino)

\* remove_node, under nodes.write(): take the node off its parent, remove it
UnlinkNode(ns, node) ==
    LET unlinked == IF node.parent_ino \in DOMAIN ns
                    THEN [ns EXCEPT ![node.parent_ino] = remove_child(@, node.ino)]
                    ELSE ns
    IN  MapRemove(unlinked, node.ino)

\* remove_node, under name_to_ino.write()
IndexRemove(index, parent_ino, name) == MapRemove(index, <<parent_ino, name>>)

\* InodeManager::create_node, one step
CreateNodeStep(t) ==
    LET th == thr[t]
        f == Top(th)
    IN  CASE f.pc = "get_parent" ->
               LET parent == get_node(f.parent_ino) IN
               /\ thr' = [thr EXCEPT ![t] = Settle(
                      IF ~IsSome(parent)
                      THEN Return(th, Err("Parent directory not found"))
                      ELSE IF ~is_directory(Unwrap(parent))
                           THEN Return(th, Err("Parent is not a directory"))
                           ELSE SetTop(th, [f EXCEPT !.pc = "check_name"]))]
               /\ UNCHANGED <<treeVars, histVars>>
          [] f.pc = "check_name" ->
               /\ thr' = [thr EXCEPT ![t] = Settle(
                      IF IsSome(get_node_by_name(f.parent_ino, f.name))
                      THEN Return(th, Err("File already exists"))
                      ELSE SetTop(th, [f EXCEPT !.pc = "allocate"]))]
               /\ UNCHANGED <<treeVars, histVars>>
          [] f.pc = "allocate" ->
               /\ next_ino' = NextInoAfter(next_ino)
               /\ allocated' = Append(allocated, next_ino)
               /\ thr' = [thr EXCEPT ![t] =
                      SetTop(th, [f EXCEPT !.pc = "insert", !.ino = Some(next_ino)])]
               /\ UNCHANGED <<nodes, name_to_ino, feeds, loading_status, removedNonEmpty>>
          [] f.pc = "insert" ->
               /\ nodes' = InsertNode(nodes, VNode(Unwrap(f.ino), f.parent_ino, f.name,
                                                   f.node_type))
               /\ thr' = [thr EXCEPT ![t] = SetTop(th, [f EXCEPT !.pc = "index"])]
               /\ UNCHANGED <<next_ino, name_to_ino, feeds, loading_status, histVars>>
          [] f.pc = "index" ->
               /\ name_to_ino' = IndexInsert(name_to_ino, f.parent_ino, f.name, Unwrap(f.ino))
               /\ thr' = [thr EXCEPT ![t] = Settle(Return(th, Ok(Unwrap(f.ino))))]
               /\ UNCHANGED <<nodes, next_ino, feeds, loading_status, histVars>>

\* InodeManager::remove_node, one step
RemoveNodeStep(t) ==
    LET th == thr[t]
        f == Top(th)
    IN  CASE f.pc = "get_node" ->
               LET node == get_node(f.ino) IN
               /\ thr' = [thr EXCEPT ![t] = Settle(
                      IF f.ino = RootIno
                      THEN Return(th, Err("Cannot remove root directory"))
                      ELSE IF ~IsSome(node)
                           THEN Return(th, Err("Node not found"))
                           ELSE SetTop(th, [f EXCEPT !.pc = "unlink", !.node = node]))]
               /\ UNCHANGED <<treeVars, histVars>>
          [] f.pc = "unlink" ->
               /\ nodes' = UnlinkNode(nodes, Unwrap(f.node))
               /\ removedNonEmpty' = (removedNonEmpty
                                      \/ (f.ino \in DOMAIN nodes /\ nodes[f.ino].children # <<>>))
               /\ thr' = [thr EXCEPT ![t] = SetTop(th, [f EXCEPT !.pc = "unindex"])]
               /\ UNCHANGED <<next_ino, name_to_ino, feeds, loading_status, allocated>>
          [] f.pc = "unindex" ->
               /\ name_to_ino' = IndexRemove(name_to_ino, Unwrap(f.node).parent_ino,
                                             Unwrap(f.node).name)
               /\ thr' = [thr EXCEPT ![t] = Settle(Return(th, Ok(None)))]
               /\ UNCHANGED <<nodes, next_ino, feeds, loading_status, histVars>>

\* InodeManager::create_article_file, its one step (the rest is calls)
CreateArticleFileStep(t) ==
    LET th == thr[t]
        f == Top(th)
        dir == get_node_by_name(RootIno, f.feed_name)
    IN  /\ f.pc = "lookup"
        /\ thr' = [thr EXCEPT ![t] = Settle(
               IF IsSome(dir)
               THEN Call(th, [f EXCEPT !.pc = "ret"],
                         CreateNodeFrame(Unwrap(dir).ino, markdown_filename(f.article),
                                         ArticleFile(f.feed_name, f.article)))
               ELSE Call(th, [f EXCEPT !.pc = "after_mkdir"],
                         CreateFeedDirectoryFrame(f.feed_name)))]
        /\ UNCHANGED <<treeVars, histVars>>

(***************************************************************************)
(* RssFuseFilesystem: the feed operations.                                 *)
(***************************************************************************)
\* RssFuseFilesystem::remove_feed, one step
RemoveFeedStep(t) ==
    LET th == thr[t]
        f == Top(th)
    IN  CASE f.pc = "lookup" ->
               LET feed_node == get_node_by_name(RootIno, f.feed_name) IN
               /\ thr' = [thr EXCEPT ![t] = Settle(
                      IF IsSome(feed_node)
                      THEN SetTop(th, [f EXCEPT !.pc = "list", !.feed_node = feed_node])
                      ELSE SetTop(th, [f EXCEPT !.pc = "feeds"]))]
               /\ UNCHANGED <<treeVars, histVars>>
          [] f.pc = "list" ->
               LET children == list_children(Unwrap(f.feed_node).ino) IN
               /\ thr' = [thr EXCEPT ![t] = Settle(SetTop(th,
                      [f EXCEPT !.pc = "children",
                                !.children = [i \in DOMAIN children |-> children[i].ino]]))]
               /\ UNCHANGED <<treeVars, histVars>>
          [] f.pc = "feeds" ->
               /\ feeds' = MapRemove(feeds, f.feed_name)
               /\ thr' = [thr EXCEPT ![t] = Settle(Return(th, Ok(None)))]
               /\ UNCHANGED <<nodes, next_ino, name_to_ino, loading_status, histVars>>

\* RssFuseFilesystem::add_loading_placeholder, its one step (the rest is calls)
AddLoadingPlaceholderStep(t) ==
    LET th == thr[t]
        f == Top(th)
    IN  /\ f.pc = "status"
        /\ loading_status' = MapInsert(loading_status, f.feed_name, Loading)
        /\ thr' = [thr EXCEPT ![t] = Settle(
               Call(th, [f EXCEPT !.pc = "after_mkdir"], CreateFeedDirectoryFrame(f.feed_name)))]
        /\ UNCHANGED <<nodes, next_ino, name_to_ino, feeds, histVars>>

\* RssFuseFilesystem::add_error_placeholder, its one step (the rest is calls)
AddErrorPlaceholderStep(t) ==
    LET th == thr[t]
        f == Top(th)
    IN  /\ f.pc = "status"
        /\ loading_status' = MapInsert(loading_status, f.feed_name, Error(f.error_message))
        /\ thr' = [thr EXCEPT ![t] = Settle(
               Call(th, [f EXCEPT !.pc = "mkdir"], RemoveFeedFrame(f.feed_name)))]
        /\ UNCHANGED <<nodes, next_ino, name_to_ino, feeds, histVars>>

\* RssFuseFilesystem::add_feed, one step
AddFeedStep(t) ==
    LET th == thr[t]
        f == Top(th)
    IN  CASE f.pc = "status" ->
               /\ loading_status' = MapInsert(loading_status, f.feed.name, Loaded)
               /\ thr' = [thr EXCEPT ![t] = Settle(
                      Call(th, [f EXCEPT !.pc = "mkdir"], RemoveFeedFrame(f.feed.name)))]
               /\ UNCHANGED <<nodes, next_ino, name_to_ino, feeds, histVars>>
          [] f.pc = "store" ->
               /\ feeds' = MapInsert(feeds, f.feed.name, f.feed)
               /\ thr' = [thr EXCEPT ![t] = Settle(Return(th, Ok(None)))]
               /\ UNCHANGED <<nodes, next_ino, name_to_ino, loading_status, histVars>>

(***************************************************************************)
(* The repository's steps.                                                 *)
(***************************************************************************)
\* the feed's cached content is what the tree shows, and its status is Loaded
CachedContentLoaded(name) ==
    /\ name \in DOMAIN feeds
    /\ MapGet(loading_status, name) = Some(Loaded)

\* the files the threads hold open
OpenFds ==
    {i \in Inodes : \E t \in Threads : \E n \in DOMAIN thr[t].stack :
        /\ thr[t].stack[n].fn = "save_to_disk"
        /\ thr[t].stack[n].fd = Some(i)}

\* a call of the storage layer has returned
Observe(o) == IF obs = <<>> THEN <<o>> ELSE <<obs[Len(obs)], o>>

\* Repository::get_feed_from_cache_or_storage, one step
GetFeedStep(t) ==
    LET th == thr[t]
        f == Top(th)
    IN  CASE f.pc = "cache_get" ->
               \* if let Some(feed) = self.cache.feeds.get(name) { return Ok(Some(feed)) }
               LET g == FeedCache_get(feed_cache, feed_stats, f.name, clock) IN
               /\ feed_cache' = g.feeds
               /\ feed_stats' = g.stats
               /\ thr' = [thr EXCEPT ![t] =
                      IF IsSome(g.ret) THEN Settle(Return(th, Ok(g.ret)))
                      ELSE SetTop(th, [f EXCEPT !.pc = "storage_get"])]
               /\ UNCHANGED <<treeVars, histVars, mountVars, clock, article_cache,
                              article_stats, uses, disk, obs, commands, session, memory, locks>>
          [] f.pc = "storage_get" ->
               /\ thr' = [thr EXCEPT ![t] =
                      IF IsSome(repo.storage)
                      THEN SetTop(th, [f EXCEPT !.pc = "backfill", !.feed = repo.storage])
                      ELSE Settle(Return(th, Ok(None)))]
               /\ UNCHANGED <<treeVars, histVars, restVars>>
          [] f.pc = "backfill" ->
               \* let _ = self.cache.feeds.put(name.to_string(), feed.clone())
               LET p == FeedCache_put(feed_cache, feed_stats, f.name, Unwrap(f.feed), clock) IN
               /\ feed_cache' = p.feeds
               /\ feed_stats' = p.stats
               /\ thr' = [thr EXCEPT ![t] = Settle(Return(th, Ok(f.feed)))]
               /\ UNCHANGED <<treeVars, histVars, mountVars, clock, article_cache,
                              article_stats, uses, disk, obs, commands, session, memory, locks>>

\* Repository::store_feed_in_cache_and_storage, one step
SaveFeedStep(t) ==
    LET th == thr[t]
        f == Top(th)
    IN  CASE f.pc = "cache_put" ->
               \* let _ = self.cache.feeds.put(feed_name.clone(), feed.clone())
               LET p == FeedCache_put(feed_cache, feed_stats, f.feed.name, f.feed, clock) IN
               /\ feed_cache' = p.feeds
               /\ feed_stats' = p.stats
               /\ thr' = [thr EXCEPT ![t] = SetTop(th,
                      [f EXCEPT !.pc = IF f.articles = <<>>
                                       THEN "storage_store" ELSE "articles_put"])]
               /\ UNCHANGED <<treeVars, histVars, mountVars, clock, article_cache,
                              article_stats, uses, disk, obs, commands, session, memory, locks>>
          [] f.pc = "articles_put" ->
               \* for article in &feed.articles { self.cache.articles.put(...) }
               LET article == Head(f.articles)
                   p == ArticleCache_put(article_cache, article_stats, article.id, article,
                                         clock)
               IN
               /\ article_cache' = p.cache
               /\ article_stats' = p.stats
               /\ uses' = Touch(uses, article.id)
               /\ thr' = [thr EXCEPT ![t] = SetTop(th,
                      [f EXCEPT !.articles = Tail(@),
                                !.pc = IF Tail(f.articles) = <<>>
                                       THEN "storage_store" ELSE "articles_put"])]
               /\ UNCHANGED <<treeVars, histVars, mountVars, clock, feed_cache,
                              feed_stats, disk, obs, commands, session, memory, locks>>
          [] f.pc = "storage_store" ->
               \* self.storage.store_feed(&feed).await?
               /\ repo' = [repo EXCEPT !.storage = Some(f.feed)]
               /\ thr' = [thr EXCEPT ![t] = Settle(Return(th, Ok(None)))]
               /\ UNCHANGED <<treeVars, histVars, env, failedOnLoaded, cacheVars, commands, session, memory, locks>>

\* Repository::refresh_feed_background and the refresh_feed it runs, one step
RefreshFeedBackgroundStep(t) ==
    LET th == thr[t]
        f == Top(th)
    IN  CASE f.pc = "fetch" ->
               /\ repo' = AfterFetch(repo)
               /\ IF FetchOutcome(repo) = "ok"
                  THEN /\ thr' = [thr EXCEPT ![t] = SetTop(th,
                              [f EXCEPT !.pc = "cache_put",
                                        !.feed = Some(Feed(f.name, FetchedArticles))])]
                       /\ UNCHANGED failedOnLoaded
                  ELSE /\ thr' = [thr EXCEPT ![t] = Settle(Return(th,
                              refresh_feed_background(f.name, Err("HttpError"))))]
                       /\ failedOnLoaded' = (failedOnLoaded \/ CachedContentLoaded(f.name))
               /\ UNCHANGED <<treeVars, histVars, env, cacheVars, commands, session, memory, locks>>
          [] f.pc = "cache_put" ->
               \* let _ = self.cache.feeds.put(feed_name.clone(), feed.clone())
               LET p == FeedCache_put(feed_cache, feed_stats, f.name, Unwrap(f.feed), clock) IN
               /\ feed_cache' = p.feeds
               /\ feed_stats' = p.stats
               /\ thr' = [thr EXCEPT ![t] = SetTop(th,
                      [f EXCEPT !.articles = Unwrap(f.feed).articles,
                                !.pc = IF Unwrap(f.feed).articles = <<>>
                                       THEN "storage_store" ELSE "articles_put"])]
               /\ UNCHANGED <<treeVars, histVars, mountVars, clock, article_cache,
                              article_stats, uses, disk, obs, commands, session, memory, locks>>
          [] f.pc = "articles_put" ->
               \* for article in &feed.articles { self.cache.articles.put(...) }
               LET article == Head(f.articles)
                   p == ArticleCache_put(article_cache, article_stats, article.id, article,
                                         clock)
               IN
               /\ article_cache' = p.cache
               /\ article_stats' = p.stats
               /\ uses' = Touch(uses, article.id)
               /\ thr' = [thr EXCEPT ![t] = SetTop(th,
                      [f EXCEPT !.articles = Tail(@),
                                !.pc = IF Tail(f.articles) = <<>>
                                       THEN "storage_store" ELSE "articles_put"])]
               /\ UNCHANGED <<treeVars, histVars, mountVars, clock, feed_cache,
                              feed_stats, disk, obs, commands, session, memory, locks>>
          [] f.pc = "storage_store" ->
               \* self.storage.store_feed(&feed).await?; then save_cache()
               /\ repo' = [repo EXCEPT !.storage = f.feed]
               /\ thr' = [thr EXCEPT ![t] = Settle(SetTop(th, [f EXCEPT !.pc = "save"]))]
               /\ UNCHANGED <<treeVars, histVars, env, failedOnLoaded, cacheVars, commands, session, memory, locks>>

\* CacheManager::save_to_disk and PersistentCache::save, one step
SaveToDiskStep(t) ==
    LET th == thr[t]
        f == Top(th)
    IN  CASE f.pc = "feeds_read" ->
               \* let feeds = self.feeds.feeds.read(); feeds.clone()
               /\ thr' = [thr EXCEPT ![t] = SetTop(th,
                      [f EXCEPT !.pc = "articles_read", !.feeds = feed_cache])]
               /\ UNCHANGED <<treeVars, histVars, restVars>>
          [] f.pc = "articles_read" ->
               \* the article map; save filters, converts and serializes
               /\ thr' = [thr EXCEPT ![t] = SetTop(th,
                      [f EXCEPT !.pc = "create",
                                !.articles = ArticleMap(article_cache.lru),
                                !.doc = Some(PersistentCacheData(
                                           f.feeds, ArticleMap(article_cache.lru), clock))])]
               /\ UNCHANGED <<treeVars, histVars, restVars>>
          [] f.pc = "create" ->
               \* fs::write(&temp_file, json_content): the file is opened
               LET c == CreateTemp(disk) IN
               /\ disk' = c.disk
               /\ thr' = [thr EXCEPT ![t] = SetTop(th,
                      [f EXCEPT !.pc = "write", !.fd = Some(c.fd), !.k = 1])]
               /\ UNCHANGED <<treeVars, histVars, mountVars, clock, memVars, obs, commands, session, memory, locks>>
          [] f.pc = "write" ->
               \* fs::write: one write of the content; the file is closed after the last
               LET fd == Unwrap(f.fd)
                   written == [disk EXCEPT !.data[fd] = WriteAt(@, Unwrap(f.doc), f.k)]
               IN
               /\ disk' = IF f.k = NChunks THEN Collect(written, OpenFds \ {fd})
                          ELSE written
               /\ thr' = [thr EXCEPT ![t] = SetTop(th,
                      IF f.k = NChunks THEN [f EXCEPT !.pc = "rename", !.fd = None]
                      ELSE [f EXCEPT !.k = @ + 1])]
               /\ UNCHANGED <<treeVars, histVars, mountVars, clock, memVars, obs, commands, session, memory, locks>>
          [] f.pc = "rename" ->
               \* fs::rename(&temp_file, &self.cache_file)
               LET r == Rename(disk) IN
               /\ disk' = Collect(r.disk, OpenFds)
               /\ obs' = Observe([op |-> "save", by |-> t, at |-> clock,
                                  feeds |-> f.feeds, articles |-> f.articles,
                                  doc |-> Unwrap(f.doc), ret |-> r.res])
               /\ thr' = [thr EXCEPT ![t] = Settle(Return(th, r.res))]
               /\ UNCHANGED <<treeVars, histVars, mountVars, clock, memVars, commands, session, memory, locks>>

\* the auto-save task: interval.tick().await, then save_to_disk
AutoSaveStep(t) ==
    LET th == thr[t]
        f == Top(th)
    IN  /\ f.pc = "tick"
        /\ thr' = [thr EXCEPT ![t] =
               Settle(Call(th, [f EXCEPT !.pc = "saved"], SaveToDiskFrame))]
        /\ UNCHANGED <<treeVars, histVars, restVars>>

(***************************************************************************)
(* The mount command's steps, up to the call of mount_foreground, where it *)
(* registers the filesystem and waits for the shutdown signal.             *)
(***************************************************************************)
MountStep(t) ==
    LET th == thr[t]
        f == Top(th)
    IN  CASE f.pc = "with_persistent_cache" ->
               \* RepositoryFactory::with_persistent_cache(...).map_err(Error::Storage)?
               \E order \in LoadOrders(disk, clock) :
                  LET w == with_persistence(MountMaxEntries, disk, clock, order) IN
                  /\ feed_cache' = w.caches.feed_cache
                  /\ feed_stats' = w.caches.feed_stats
                  /\ article_cache' = w.caches.article_cache
                  /\ article_stats' = w.caches.article_stats
                  /\ uses' = w.caches.uses
                  /\ thr' = IF w.res.ok
                            THEN [thr EXCEPT
                                    ![t] = SetTop(th, [f EXCEPT !.pc = "is_mounted"]),
                                    !["autosave"] = Push(@, AutoSaveFrame)]
                            ELSE [thr EXCEPT ![t] = Settle(Return(th, Err("Storage")))]
                  /\ UNCHANGED <<treeVars, histVars, mountVars, clock, disk, obs, commands, session, memory, locks>>
          [] f.pc = "is_mounted" ->
               \* if fuse_ops.is_mounted(&mount_point) { return Err(AlreadyExists) }
               /\ thr' = [thr EXCEPT ![t] =
                      IF is_mounted(env) THEN Settle(Return(th, Err("AlreadyExists")))
                      ELSE SetTop(th, [f EXCEPT !.pc = "validate"])]
               /\ UNCHANGED <<treeVars, histVars, restVars>>
          [] f.pc = "validate" ->
               LET v == validate_mount_point_internal(env) IN
               /\ env' = v.env
               /\ thr' = [thr EXCEPT ![t] =
                      IF v.res.ok THEN Settle(SetTop(th, [f EXCEPT !.pc = "placeholders"]))
                      ELSE IF v.res.val = "AlreadyExists"
                      THEN Settle(Return(th, Err("AlreadyExists")))
                      ELSE SetTop(th, [f EXCEPT !.pc = "stale_check", !.e = Some(v.res.val)])]
               /\ UNCHANGED <<treeVars, histVars, repo, failedOnLoaded, cacheVars, commands, session, memory, locks>>
          [] f.pc = "stale_check" ->
               \* if mount_point.exists() && fuse_ops.is_mount_stale(&mount_point)
               /\ thr' = [thr EXCEPT ![t] =
                      IF env.exists /\ is_mount_stale(env)
                      THEN SetTop(th, [f EXCEPT !.pc = "cleanup"])
                      ELSE Settle(Return(th, Err(Unwrap(f.e))))]
               /\ UNCHANGED <<treeVars, histVars, restVars>>
          [] f.pc = "cleanup" ->
               \E lazy_ok \in BOOLEAN, force_ok \in BOOLEAN :
                  LET c == cleanup_stale_mount(env, lazy_ok, force_ok) IN
                  /\ env' = c.env
                  /\ thr' = [thr EXCEPT ![t] =
                         IF c.res.ok THEN SetTop(th, [f EXCEPT !.pc = "revalidate"])
                         ELSE Settle(Return(th, Err(Unwrap(f.e))))]
                  /\ UNCHANGED <<treeVars, histVars, repo, failedOnLoaded, cacheVars, commands, session, memory, locks>>
          [] f.pc = "revalidate" ->
               \* fuse_ops.validate_mount_point(&mount_point)?
               LET v == validate_mount_point_internal(env) IN
               /\ env' = v.env
               /\ thr' = [thr EXCEPT ![t] =
                      IF v.res.ok THEN Settle(SetTop(th, [f EXCEPT !.pc = "placeholders"]))
                      ELSE Settle(Return(th, v.res))]
               /\ UNCHANGED <<treeVars, histVars, repo, failedOnLoaded, cacheVars, commands, session, memory, locks>>
          [] f.pc = "spawn" ->
               \* the three tokio::spawn calls; then mount_foreground
               /\ thr' = [thr EXCEPT
                      ![t] = SetTop(th, [f EXCEPT !.pc = "mount_foreground"]),
                      !["cache"] = Settle(Push(@, CacheLoadFrame)),
                      !["bg"] = Settle(Push(@, BgRefreshFrame)),
                      !["per"] = Settle(Push(@, PeriodicFrame))]
               /\ UNCHANGED <<treeVars, histVars, restVars>>
          [] OTHER -> FALSE

\* the background-refresh task: tokio::time::sleep(100 ms), then the refreshes
BgRefreshStep(t) ==
    LET th == thr[t]
        f == Top(th)
    IN  /\ f.pc = "sleep"
        /\ thr' = [thr EXCEPT ![t] = Settle(SetTop(th, [f EXCEPT !.pc = "next"]))]
        /\ UNCHANGED <<treeVars, histVars, restVars>>

\* the periodic-refresh task: the warm-up, then one cycle after the other
PeriodicTask(name) == "ptask"

PeriodicStep(t) ==
    LET th == thr[t]
        f == Top(th)
    IN  CASE f.pc = "warmup" ->
               /\ thr' = [thr EXCEPT ![t] = SetTop(th, [f EXCEPT !.pc = "tick"])]
               /\ UNCHANGED <<treeVars, histVars, restVars>>
          [] f.pc = "tick" ->
               \* interval.tick().await; one tokio::spawn per feed
               /\ thr' = [u \in Threads |->
                      IF u = t THEN SetTop(th, [f EXCEPT !.pc = "join"])
                      ELSE IF \E k \in DOMAIN ConfigFeeds : u = PeriodicTask(ConfigFeeds[k])
                      THEN Settle(Push(thr[u], PeriodicRefreshFrame(
                               ConfigFeeds[CHOOSE k \in DOMAIN ConfigFeeds :
                                              u = PeriodicTask(ConfigFeeds[k])])))
                      ELSE thr[u]]
               /\ UNCHANGED <<treeVars, histVars, restVars>>
          [] f.pc = "join" ->
               \* for task in refresh_tasks { let _ = task.await; }
               /\ \A k \in DOMAIN ConfigFeeds : Idle(thr[PeriodicTask(ConfigFeeds[k])])
               /\ thr' = [thr EXCEPT ![t] = SetTop(th, [f EXCEPT !.pc = "tick"])]
               /\ UNCHANGED <<treeVars, histVars, restVars>>

(***************************************************************************)
(* One step of a thread: the step of the function on top of its stack.     *)
(***************************************************************************)
(***************************************************************************)
(* mount_foreground (src/src/cli/mount.rs) and FuseOperations::mount       *)
(* (src/src/fuse/operations.rs), with the thread that runs fuser::mount2.  *)
(***************************************************************************)
\* what wait_for_shutdown can return on: the signal, or signal::ctrl_c() failing
Heard == IF session.signalled THEN {"signal", "listen_error"} ELSE {"listen_error"}

MountForegroundStep(t) ==
    LET th == thr[t]
        f == Top(th)
    IN  CASE f.pc = "mount" ->
               \* match fuse_ops.mount(&mount_point, mount_options): validates the mount
               \* point, spawns the thread of fuser::mount2, sleeps 50 ms, returns Ok(())
               LET v == validate_mount_point_internal(env) IN
               /\ env' = v.env
               /\ thr' = IF v.res.ok
                         THEN [thr EXCEPT
                                 ![t] = SetTop(th, [f EXCEPT !.pc = "wait_for_shutdown",
                                                            !.mounted = Some(Ok(None))]),
                                 !["fuse"] = Push(@, FuseSessionFrame)]
                         ELSE [thr EXCEPT ![t] = Settle(Return(th, v.res))]
               \* let fs = (*self.filesystem).clone()
               /\ session' = IF v.res.ok
                             THEN [session EXCEPT !.fs = Some(CloneOf(feeds, loading_status))]
                             ELSE session
               /\ UNCHANGED <<treeVars, histVars, repo, failedOnLoaded, cacheVars, commands,
                              memory, locks>>
          [] f.pc = "wait_for_shutdown" ->
               \* wait_for_shutdown().await; then repo.save_cache()
               \E heard \in Heard :
                  /\ thr' = [thr EXCEPT ![t] =
                         Settle(Call(th, [f EXCEPT !.pc = "saved", !.heard = Some(heard)],
                                     SaveToDiskFrame))]
                  /\ UNCHANGED <<treeVars, histVars, restVars>>

\* std::thread::spawn(move || match fuser::mount2(fs, ..) { Ok => info, Err => error })
FuseSessionStep(t) ==
    LET th == thr[t]
        f == Top(th)
    IN  CASE f.pc = "mount2" ->
               \* the kernel registers the filesystem, or refuses
               \E registered \in BOOLEAN :
                  /\ session' = [session EXCEPT !.registered = Some(registered)]
                  /\ env' = IF registered THEN [env EXCEPT !.listed = TRUE] ELSE env
                  /\ thr' = [thr EXCEPT ![t] =
                         IF registered THEN SetTop(th, [f EXCEPT !.pc = "serving"])
                         ELSE Settle(Return(th, Ok(None)))]
                  /\ UNCHANGED <<treeVars, histVars, repo, failedOnLoaded, cacheVars, commands,
                                 memory, locks>>
          [] f.pc = "serving" ->
               \* mount2 returns when the filesystem is unmounted
               /\ ~env.listed
               /\ thr' = [thr EXCEPT ![t] = Settle(Return(th, Ok(None)))]
               /\ UNCHANGED <<treeVars, histVars, restVars>>

(***************************************************************************)
(* FuseOperations::unmount (src/src/fuse/operations.rs).  Each command it  *)
(* runs is one step and one entry of commands: the function that ran it,   *)
(* the command, and whether it succeeded.                                  *)
(***************************************************************************)
\* a command succeeds, fails, or cannot be started; it can succeed only on a
\* mount point that is in the mount table
CmdOutcomes(e) == IF e.listed THEN {"ok", "fails", "absent"} ELSE {"fails", "absent"}

max_attempts == 3

Ran(fn, cmd, outcome) == [fn |-> fn, cmd |-> cmd, ok |-> outcome = "ok"]

\* unmount, Strategy 2: the processes are killed with the force flag also when
\* it is not set
after_busy_kills(force, busy) == IF busy THEN "kill" ELSE "force_fusermount"

\* unmount, Strategy 2: if force { self.kill_mount_users(..)?; sleep(500 ms) }
after_busy(force, busy) == IF busy /\ force THEN "kill" ELSE "force_fusermount"

\* unmount, Strategy 4: if force { try_lazy_unmount } else Err(Fuse)
after_force_failed(force) == IF force THEN "lazy_fusermount" ELSE "failed"

UnmountStep(t) ==
    LET th == thr[t]
        f == Top(th)
        Goto(pc) == [thr EXCEPT ![t] =
                        IF pc = "failed" THEN Settle(Return(th, Err("Fuse")))
                        ELSE SetTop(th, [f EXCEPT !.pc = pc])]
        Done == [thr EXCEPT ![t] = Settle(Return(th, Ok(None)))]
        \* one command of a strategy: on success the mount is gone and unmount
        \* returns Ok; when it failed, or could not be started, the strategy goes on
        Command(fn, cmd, on_fails, on_absent) ==
            \E outcome \in CmdOutcomes(env) :
               /\ commands' = Append(commands, Ran(fn, cmd, outcome))
               /\ env' = IF outcome = "ok" THEN PlainDirectory(env) ELSE env
               /\ thr' = IF outcome = "ok" THEN Done
                         ELSE IF outcome = "fails" THEN on_fails
                         ELSE on_absent
               /\ UNCHANGED <<treeVars, histVars, repo, failedOnLoaded, cacheVars, session, memory, locks>>
        \* try_graceful_unmount_with_retry: the next attempt, or Strategy 2
        NextAttempt ==
            [thr EXCEPT ![t] =
                IF f.attempt < max_attempts
                THEN SetTop(th, [f EXCEPT !.attempt = @ + 1, !.pc = "graceful_fusermount"])
                ELSE SetTop(th, [f EXCEPT !.pc = "busy"])]
    IN  CASE f.pc = "exists" ->
               \* if !mount_point.exists() { if !force { return Err(NotFound) } }
               /\ thr' = [thr EXCEPT ![t] =
                      IF ~env.exists /\ ~f.force THEN Settle(Return(th, Err("NotFound")))
                      ELSE SetTop(th, [f EXCEPT !.pc = "is_mounted",
                                                !.existed = Some(env.exists)])]
               /\ UNCHANGED <<treeVars, histVars, restVars>>
          [] f.pc = "is_mounted" ->
               \* if !self.is_mounted(mount_point) && !force { return Ok(()) }
               \* Strategy 1: if !force { try_graceful_unmount_with_retry(.., 3) }
               /\ thr' = [thr EXCEPT ![t] =
                      IF ~is_mounted(env) /\ ~f.force THEN Settle(Return(th, Ok(None)))
                      ELSE SetTop(th, [f EXCEPT !.mounted = Some(is_mounted(env)),
                                                !.pc = IF ~f.force THEN "graceful_fusermount"
                                                       ELSE "busy"])]
               /\ UNCHANGED <<treeVars, histVars, restVars>>
          [] f.pc = "graceful_fusermount" ->
               Command("try_graceful_unmount", "fusermount -u",
                       Goto("graceful_umount"), NextAttempt)
          [] f.pc = "graceful_umount" ->
               Command("try_graceful_unmount", "umount", NextAttempt, NextAttempt)
          [] f.pc = "busy" ->
               \* Strategy 2: if self.is_mount_busy(..) { show_mount_usage; if force {..} }
               \E busy \in BOOLEAN :
                  /\ thr' = [thr EXCEPT ![t] =
                         SetTop(th, [f EXCEPT !.busy = Some(busy),
                                              !.pc = after_busy(f.force, busy)])]
                  /\ UNCHANGED <<treeVars, histVars, restVars>>
          [] f.pc = "kill" ->
               \* kill_mount_users: fuser -k -m, else lsof -t and kill -TERM; always Ok
               \E killed \in BOOLEAN :
                  /\ commands' = Append(commands,
                         [fn |-> "kill_mount_users", cmd |-> "fuser -k -m", ok |-> killed])
                  /\ thr' = Goto("force_fusermount")
                  /\ UNCHANGED <<treeVars, histVars, mountVars, cacheVars, session, memory, locks>>
          [] f.pc = "force_fusermount" ->
               \* Strategy 3: try_force_unmount
               Command("try_force_unmount", "fusermount -u -z",
                       Goto("force_umount"), Goto(after_force_failed(f.force)))
          [] f.pc = "force_umount" ->
               Command("try_force_unmount", "umount -f",
                       Goto(after_force_failed(f.force)), Goto(after_force_failed(f.force)))
          [] f.pc = "lazy_fusermount" ->
               \* Strategy 4: try_lazy_unmount
               Command("try_lazy_unmount", "fusermount -u -z",
                       Goto("lazy_umount"), Goto("failed"))
          [] f.pc = "lazy_umount" ->
               Command("try_lazy_unmount", "umount -l", Goto("failed"), Goto("failed"))

ThreadStep(t) ==
    /\ ~Idle(thr[t])
    /\ LET fn == Top(thr[t]).fn IN
       CASE fn = "create_node" -> CreateNodeStep(t) /\ UNCHANGED restVars
         [] fn = "remove_node" -> RemoveNodeStep(t) /\ UNCHANGED restVars
         [] fn = "create_article_file" -> CreateArticleFileStep(t) /\ UNCHANGED restVars
         [] fn = "remove_feed" -> RemoveFeedStep(t) /\ UNCHANGED restVars
         [] fn = "add_loading_placeholder" ->
              AddLoadingPlaceholderStep(t) /\ UNCHANGED restVars
         [] fn = "add_error_placeholder" ->
              AddErrorPlaceholderStep(t) /\ UNCHANGED restVars
         [] fn = "add_feed" -> AddFeedStep(t) /\ UNCHANGED restVars
         [] fn = "get_feed_from_cache_or_storage" -> GetFeedStep(t)
         [] fn = "refresh_feed_background" -> RefreshFeedBackgroundStep(t)
         [] fn = "save_feed" -> SaveFeedStep(t)
         [] fn = "save_to_disk" -> SaveToDiskStep(t)
         [] fn = "auto_save" -> AutoSaveStep(t)
         [] fn = "mount" -> MountStep(t)
         [] fn = "unmount" -> UnmountStep(t)
         [] fn = "mount_foreground" -> MountForegroundStep(t)
         [] fn = "fuse_session" -> FuseSessionStep(t)
         [] fn = "bg_refresh" -> BgRefreshStep(t)
         [] fn = "periodic" -> PeriodicStep(t)
    /\ UNCHANGED <<rdr, callers, opsLeft>>

(***************************************************************************)
(* The callers of Spec: any call of the tree's and the filesystem's API.   *)
(***************************************************************************)
CanCall(t) == t \in callers /\ Idle(thr[t]) /\ opsLeft > 0

Issue(t, frame) ==
    /\ CanCall(t)
    /\ thr' = [thr EXCEPT ![t] = Settle(Push(thr[t], frame))]
    /\ opsLeft' = opsLeft - 1
    /\ UNCHANGED <<treeVars, histVars, rdr, callers, mountVars, cacheVars, commands, session, memory, locks>>

\* a direct create_node call: a feed directory under root, an article file elsewhere
RawName(parent_ino) ==
    IF parent_ino = RootIno THEN Tech ELSE markdown_filename(Art("A"))
RawNodeType(parent_ino) ==
    IF parent_ino = RootIno THEN FeedDirectory(Tech) ELSE ArticleFile(Tech, Art("A"))

CallCreateNode(t) ==
    \E parent_ino \in 1..(next_ino - 1) :
        Issue(t, CreateNodeFrame(parent_ino, RawName(parent_ino), RawNodeType(parent_ino)))

CallRemoveNode(t) ==
    \E ino \in 1..(next_ino - 1) : Issue(t, RemoveNodeFrame(ino))

CallAddLoadingPlaceholder(t) ==
    \E feed_name \in FeedNames : Issue(t, AddLoadingPlaceholderFrame(feed_name))

CallAddErrorPlaceholder(t) ==
    \E feed_name \in FeedNames : Issue(t, AddErrorPlaceholderFrame(feed_name, "Network"))

DirIno(feed_name) ==
    IF <<RootIno, feed_name>> \in DOMAIN name_to_ino
    THEN Some(name_to_ino[<<RootIno, feed_name>>]) ELSE None

CallAddFeed(t) ==
    \E feed_name \in FeedNames, articles \in ArticleLists :
        Issue(t, AddFeedFrame(Feed(feed_name, articles), DirIno(feed_name)))

CallRemoveFeed(t) ==
    \E feed_name \in FeedNames : Issue(t, RemoveFeedFrame(feed_name))

(***************************************************************************)
(* The reader: lookup(root, name), then list_children of what it found.    *)
(* The kernel keeps nothing of a listing; the reader of the replacement    *)
(* scenario (rdr.keeps) keeps the last listing it obtained.                *)
(***************************************************************************)
NoListing == [seen |-> FALSE, found |-> FALSE, names |-> <<>>]
Listing(ns) == [seen |-> TRUE, found |-> TRUE, names |-> [i \in DOMAIN ns |-> ns[i].name]]
NotFound == [seen |-> TRUE, found |-> FALSE, names |-> <<>>]

ReaderLookup ==
    /\ rdr.on
    /\ rdr.pc = "lookup"
    /\ \E feed_name \in FeedNames :
         LET node == get_node_by_name(RootIno, feed_name) IN
         rdr' = IF IsSome(node)
                THEN [rdr EXCEPT !.pc = "list", !.dir = Unwrap(node).ino]
                ELSE [rdr EXCEPT !.obs = IF rdr.keeps THEN NotFound ELSE @]
    /\ UNCHANGED <<treeVars, histVars, thr, callers, opsLeft, mountVars, cacheVars,
                   commands, session, memory, locks>>

ReaderList ==
    /\ rdr.on
    /\ rdr.pc = "list"
    /\ rdr' = [rdr EXCEPT !.pc = "lookup",
                          !.obs = IF rdr.keeps THEN Listing(list_children(rdr.dir)) ELSE @]
    /\ UNCHANGED <<treeVars, histVars, thr, callers, opsLeft, mountVars, cacheVars,
                   commands, session, memory, locks>>

(***************************************************************************)
(* The state after RssFuseFilesystem::new().                               *)
(***************************************************************************)
\* create_node run to its end by the constructor, which runs alone
Created(st, parent_ino, name, node_type) ==
    [nodes |-> InsertNode(st.nodes, VNode(st.next_ino, parent_ino, name, node_type)),
     next_ino |-> NextInoAfter(st.next_ino),
     name_to_ino |-> IndexInsert(st.name_to_ino, parent_ino, name, st.next_ino),
     allocated |-> Append(st.allocated, st.next_ino)]

\* InodeManager::new and create_root
NewInodeManager ==
    [nodes |-> MapInsert(EmptyMap, RootIno, VNode(RootIno, RootIno, RootName, Root)),
     next_ino |-> FirstIno,
     name_to_ino |-> MapInsert(EmptyMap, <<RootIno, RootName>>, RootIno),
     allocated |-> <<>>]

\* InodeManager::create_meta_structure
MetaStructure ==
    LET meta == Created(NewInodeManager, RootIno, MetaName, MetaDirectory)
        meta_ino == NewInodeManager.next_ino
        logs == Created(meta, meta_ino, LogsName, LogsDirectory)
        cache == Created(logs, meta_ino, CacheName, CacheDirectory)
    IN  Created(cache, meta_ino, ConfigName, ConfigFile)

InitTree ==
    /\ nodes = MetaStructure.nodes
    /\ next_ino = MetaStructure.next_ino
    /\ name_to_ino = MetaStructure.name_to_ino
    /\ allocated = MetaStructure.allocated
    /\ feeds = EmptyMap
    /\ loading_status = EmptyMap
    /\ removedNonEmpty = FALSE
    /\ thr = [t \in Threads |-> IdleThread]

(***************************************************************************)
(* Spec: two threads issue any calls of the API, in any interleaving.      *)
(* get_node, get_node_by_name and list_children take their locks once: what *)
(* a reader obtains from one of them is a function of the state it is      *)
(* called in, and the claims about readers are stated on the states.       *)
(***************************************************************************)
ReaderOff == [on |-> FALSE, keeps |-> FALSE, pc |-> "lookup", dir |-> RootIno,
              obs |-> NoListing]

\* no mount command runs: the mount point and the repository stay as they are
NoMount ==
    /\ env = [listed |-> FALSE, table |-> "proc", exists |-> TRUE, is_dir |-> TRUE,
              read_dir |-> "ok", creatable |-> FALSE]
    /\ repo = [storage |-> None, fetcher |-> <<"ok">>]
    /\ failedOnLoaded = FALSE
    /\ clock = 0
    /\ feed_cache = NewCaches(MountMaxEntries).feed_cache
    /\ feed_stats = NewCaches(MountMaxEntries).feed_stats
    /\ article_cache = NewCaches(MountMaxEntries).article_cache
    /\ article_stats = NewCaches(MountMaxEntries).article_stats
    /\ uses = <<>>
    /\ disk = NoDisk
    /\ obs = <<>>
    /\ commands = <<>>
    /\ session = NoSession
    /\ memory = NewMemory
    /\ locks = NoLocks

Init ==
    /\ InitTree
    /\ NoMount
    /\ rdr = ReaderOff
    /\ callers = Writers
    /\ opsLeft = MaxOps

Next ==
    \/ \E t \in Threads : CallCreateNode(t)
    \/ \E t \in Threads : CallRemoveNode(t)
    \/ \E t \in Threads : CallAddLoadingPlaceholder(t)
    \/ \E t \in Threads : CallAddErrorPlaceholder(t)
    \/ \E t \in Threads : CallAddFeed(t)
    \/ \E t \in Threads : CallRemoveFeed(t)
    \/ \E t \in Threads : ThreadStep(t)

Spec == Init /\ [][Next]_vars

(***************************************************************************)
(* SpecSeq: a single caller issues the calls one after the other.          *)
(***************************************************************************)
InitSeq ==
    /\ InitTree
    /\ NoMount
    /\ rdr = ReaderOff
    /\ callers = {"w1"}
    /\ opsLeft = MaxSeqOps

SpecSeq == InitSeq /\ [][Next]_vars

(***************************************************************************)
(* SpecReplace: scenario 5 of the specification.  One thread installs the  *)
(* feed tech with the articles A, B, C, then replaces it by X, Y, Z, W     *)
(* with add_feed; from the start of the replacement a reader looks the     *)
(* directory up and lists it, again and again.                             *)
(***************************************************************************)
OldArticles == <<Art("A"), Art("B"), Art("C")>>
NewArticles == <<Art("X"), Art("Y"), Art("Z"), Art("W")>>
FileNames(articles) == [i \in DOMAIN articles |-> markdown_filename(articles[i])]

ReplaceSetup ==
    /\ opsLeft = 2
    /\ Issue("w1", AddFeedFrame(Feed(Tech, OldArticles), DirIno(Tech)))

ReplaceCall ==
    /\ opsLeft = 1
    /\ Issue("w1", AddFeedFrame(Feed(Tech, NewArticles), DirIno(Tech)))

Replacing == opsLeft = 0

InitReplace ==
    /\ InitTree
    /\ NoMount
    /\ rdr = [ReaderOff EXCEPT !.on = TRUE, !.keeps = TRUE]
    /\ callers = {"w1"}
    /\ opsLeft = 2

NextReplace ==
    \/ ReplaceSetup
    \/ ReplaceCall
    \/ \E t \in Threads : ThreadStep(t)
    \/ Replacing /\ ReaderLookup
    \/ Replacing /\ ReaderList

SpecReplace == InitReplace /\ [][NextReplace]_vars

(***************************************************************************)
(* SpecMount: the mount command on any mount point, with or without a      *)
(* cached copy of the feed, and the tasks it spawns, in any interleaving.  *)
(* It starts when the repository has been built from the persistent cache  *)
(* (SpecStartup has the construction and the auto-save task).  The mount   *)
(* point matters until the tasks are spawned and the server once they run: *)
(* the server answers a fetch on one of the mount points, an empty         *)
(* directory, and none on the others.                                      *)
(***************************************************************************)
CallMount == Issue("main", MountFrame)

\* the mount point on which the server answers
AnswersOn ==
    [listed |-> FALSE, table |-> "proc", exists |-> TRUE, is_dir |-> TRUE,
     read_dir |-> "ok", creatable |-> FALSE]

\* the document an earlier run saved after a refresh of the feed
CachedDoc ==
    PersistentCacheData(
        MapInsert(EmptyMap, Tech, CacheEntry(Feed(Tech, CachedArticles), 0, default_ttl)),
        [k \in {CachedArticles[i].id : i \in DOMAIN CachedArticles} |->
            CacheEntry(CHOOSE a \in Range(CachedArticles) : a.id = k, 0, default_ttl)],
        0)
CachedDisk == DiskWith(FileContent(CachedDoc))
\* a file that does not parse
DamagedDisk == DiskWith(<<>>)

\* the caches as the construction of the repository leaves them
CachesBuiltFrom(d) ==
    \E order \in LoadOrders(d, clock) :
        LET w == with_persistence(MountMaxEntries, d, clock, order) IN
        /\ feed_cache = w.caches.feed_cache
        /\ feed_stats = w.caches.feed_stats
        /\ article_cache = w.caches.article_cache
        /\ article_stats = w.caches.article_stats
        /\ uses = w.caches.uses
CachesBuilt == CachesBuiltFrom(disk)

InitMount ==
    /\ InitTree
    /\ rdr = ReaderOff
    /\ callers = {"main"}
    /\ opsLeft = 1
    /\ env \in {e \in Environments : PossibleEnvironment(e)}
    /\ repo \in [storage : {None}, fetcher : FetchScripts]
    /\ repo.fetcher # <<"fails">> => env = AnswersOn
    /\ failedOnLoaded = FALSE
    /\ clock = 0
    /\ disk \in {NoDisk, CachedDisk}
    /\ CachesBuilt
    /\ obs = <<>>
    /\ commands = <<>>
    /\ session = NoSession
    /\ memory = NewMemory
    /\ locks = NoLocks

NextMount ==
    \/ CallMount
    \/ \E t \in Threads : ThreadStep(t)

SpecMount == InitMount /\ [][NextMount]_vars

\* the mount command when the feed's server answers no fetch; the runtime runs
\* every task that can run, and the command itself
InitMountDown == InitMount /\ repo.fetcher = <<"fails">>
FairSpecMountDown ==
    InitMountDown /\ [][NextMount]_vars /\ \A t \in Tasks : WF_vars(ThreadStep(t))

(***************************************************************************)
(* SpecStartup: the mount command from the construction of the repository  *)
(* on, with the snapshot file absent, written by an earlier run, or        *)
(* damaged.  The server answers no fetch; the auto-save task runs as soon  *)
(* as the repository is built.                                             *)
(***************************************************************************)
StartFrame == [MountFrame EXCEPT !.pc = "with_persistent_cache"]
CallStart == Issue("main", StartFrame)

StartupDisks == {NoDisk, CachedDisk, DamagedDisk}

InitStartup ==
    /\ InitTree
    /\ rdr = ReaderOff
    /\ callers = {"main"}
    /\ opsLeft = 1
    /\ env = AnswersOn
    /\ repo = [storage |-> None, fetcher |-> <<"fails">>]
    /\ failedOnLoaded = FALSE
    /\ clock = 0
    /\ disk \in StartupDisks
    /\ CachesBuiltFrom(NoDisk)
    /\ obs = <<>>
    /\ commands = <<>>
    /\ session = NoSession
    /\ memory = NewMemory
    /\ locks = NoLocks

NextStartup ==
    \/ CallStart
    \/ \E t \in Threads : ThreadStep(t)

SpecStartup == InitStartup /\ [][NextStartup]_vars

(***************************************************************************)
(* SpecSave: two threads run save_to_disk at once (the auto-save task and  *)
(* a refresh, or two refreshes) while the time passes.  The caches hold    *)
(* the feed; the snapshot file is there or not.                            *)
(***************************************************************************)
Tick ==
    /\ clock < MaxClock
    /\ clock' = clock + 1
    /\ UNCHANGED <<treeVars, histVars, thr, rdr, callers, opsLeft, mountVars, memVars,
                   disk, obs, commands, session, memory, locks>>

CallSaveToDisk(t) == Issue(t, SaveToDiskFrame)

\* no mount point is involved, and the server is not asked
NoServer ==
    /\ env = AnswersOn
    /\ repo = [storage |-> None, fetcher |-> <<"fails">>]
    /\ failedOnLoaded = FALSE
    /\ commands = <<>>
    /\ session = NoSession
    /\ memory = NewMemory
    /\ locks = NoLocks

InitSave ==
    /\ InitTree
    /\ NoServer
    /\ rdr = ReaderOff
    /\ callers = Writers
    /\ opsLeft = MaxSaves
    /\ clock = 0
    /\ CachesBuiltFrom(CachedDisk)
    /\ disk \in {NoDisk, CachedDisk}
    /\ obs = <<>>

NextSave ==
    \/ \E t \in Threads : CallSaveToDisk(t)
    \/ \E t \in Threads : ThreadStep(t)
    \/ Tick

SpecSave == InitSave /\ [][NextSave]_vars

(***************************************************************************)
(* SpecSnapshot: one caller saves the caches and loads the snapshot file,  *)
(* while the time passes.  The caches hold any of a few entries with       *)
(* different expiry times; the file is absent, damaged, or the document of *)
(* an earlier save, written by this or by another version of the program.  *)
(***************************************************************************)
\* expiry times of the entries, in ticks
Expiries == {1, 4}
EntryAt(data, expires_at) == [CacheEntry(data, 0, 0) EXCEPT !.expires_at = expires_at]

SnapshotFeedCaches ==
    {EmptyMap} \cup {MapInsert(EmptyMap, Tech, EntryAt(Feed(Tech, CachedArticles), e)) :
                       e \in Expiries}
SnapshotArticles == {Art("A"), Art("B")}
SnapshotLrus ==
    {<<>>}
    \cup {<<[key |-> a.id, entry |-> EntryAt(a, e)]>> : a \in SnapshotArticles, e \in Expiries}
    \cup {<<[key |-> Art("A").id, entry |-> EntryAt(Art("A"), e1)],
            [key |-> Art("B").id, entry |-> EntryAt(Art("B"), e2)]>> :
             e1 \in Expiries, e2 \in Expiries}

\* the document of an earlier save, with the version number it was written with
EarlierDoc(version) ==
    [PersistentCacheData(
        MapInsert(EmptyMap, Tech, EntryAt(Feed(Tech, CachedArticles), 4)),
        MapInsert(MapInsert(EmptyMap, Art("A").id, EntryAt(Art("A"), 2)),
                  Art("B").id, EntryAt(Art("B"), 4)),
        0) EXCEPT !.cache_version = version]
Versions == {1, 2}
SnapshotDisks ==
    {NoDisk, DamagedDisk} \cup {DiskWith(FileContent(EarlierDoc(v))) : v \in Versions}

\* PersistentCache::load, called on its own
CallLoad(t) ==
    /\ CanCall(t)
    /\ opsLeft' = opsLeft - 1
    /\ obs' = Observe([op |-> "load", by |-> t, at |-> clock, disk |-> disk,
                       ret |-> load(disk, clock)])
    /\ UNCHANGED <<treeVars, histVars, thr, rdr, callers, mountVars, clock, memVars, disk,
                   commands, session, memory, locks>>

InitSnapshot ==
    /\ InitTree
    /\ NoServer
    /\ rdr = ReaderOff
    /\ callers = {"w1"}
    /\ opsLeft = MaxSnapshotOps
    /\ clock = 0
    /\ feed_cache \in SnapshotFeedCaches
    /\ feed_stats = [CacheStats EXCEPT !.total_entries = MapLen(feed_cache)]
    /\ article_cache \in {[ArticleCache_new(MountMaxEntries) EXCEPT !.lru = l] :
                            l \in SnapshotLrus}
    /\ article_stats = [CacheStats EXCEPT !.total_entries = Len(article_cache.lru)]
    /\ uses = [i \in DOMAIN article_cache.lru |->
                  article_cache.lru[Len(article_cache.lru) + 1 - i].key]
    /\ disk \in SnapshotDisks
    /\ obs = <<>>

NextSnapshot ==
    \/ \E t \in Threads : CallSaveToDisk(t)
    \/ \E t \in Threads : CallLoad(t)
    \/ \E t \in Threads : ThreadStep(t)
    \/ Tick

SpecSnapshot == InitSnapshot /\ [][NextSnapshot]_vars

(***************************************************************************)
(* SpecCache: one caller uses a cache (put, get, remove, cleanup_expired)   *)
(* while the time passes: w1 the article cache, w2 the feed cache.  The    *)
(* article cache is built with a max_entries of 0, 1 or 2; obs holds the   *)
(* last call, with the cache, the statistics and the order of the uses as  *)
(* the call found them.                                                    *)
(***************************************************************************)
CacheSizes == {0, 1, 2}
CacheArticles == {Art("A"), Art("B"), Art("C")}
ArticleIds == {a.id : a \in CacheArticles}
ArticleOf(article_id) == CHOOSE a \in CacheArticles : a.id = article_id

CacheCall(t, rec) ==
    /\ CanCall(t)
    /\ opsLeft' = opsLeft - 1
    /\ obs' = <<rec>>
    /\ UNCHANGED <<treeVars, histVars, thr, rdr, callers, mountVars, clock, disk, commands, session, memory, locks>>

ArticleCall(op, article_id, r) ==
    [op |-> op, key |-> article_id, at |-> clock, cache |-> article_cache,
     stats |-> article_stats, uses |-> uses, ret |-> r.ret]

CallArticleGet(t) ==
    \E article_id \in ArticleIds :
       LET r == ArticleCache_get(article_cache, article_stats, article_id, clock) IN
       /\ CacheCall(t, ArticleCall("article_get", article_id, r))
       /\ article_cache' = r.cache
       /\ article_stats' = r.stats
       /\ uses' = IF IsSome(r.ret) THEN Touch(uses, article_id) ELSE uses
       /\ UNCHANGED <<feed_cache, feed_stats>>

CallArticlePut(t) ==
    \E article_id \in ArticleIds :
       LET r == ArticleCache_put(article_cache, article_stats, article_id,
                                 ArticleOf(article_id), clock) IN
       /\ CacheCall(t, ArticleCall("article_put", article_id, r))
       /\ article_cache' = r.cache
       /\ article_stats' = r.stats
       /\ uses' = Touch(uses, article_id)
       /\ UNCHANGED <<feed_cache, feed_stats>>

CallArticleRemove(t) ==
    \E article_id \in ArticleIds :
       LET r == ArticleCache_remove(article_cache, article_stats, article_id) IN
       /\ CacheCall(t, ArticleCall("article_remove", article_id, r))
       /\ article_cache' = r.cache
       /\ article_stats' = r.stats
       /\ UNCHANGED <<feed_cache, feed_stats, uses>>

CallArticleCleanup(t) ==
    LET r == ArticleCache_cleanup_expired(article_cache, article_stats, clock) IN
    /\ CacheCall(t, ArticleCall("article_cleanup", None, r))
    /\ article_cache' = r.cache
    /\ article_stats' = r.stats
    /\ UNCHANGED <<feed_cache, feed_stats, uses>>

FeedCall(op, feed_name, r) ==
    [op |-> op, key |-> feed_name, at |-> clock, cache |-> feed_cache,
     stats |-> feed_stats, uses |-> uses, ret |-> r.ret]

CallFeedGet(t) ==
    \E feed_name \in FeedNames :
       LET r == FeedCache_get(feed_cache, feed_stats, feed_name, clock) IN
       /\ CacheCall(t, FeedCall("feed_get", feed_name, r))
       /\ feed_cache' = r.feeds
       /\ feed_stats' = r.stats
       /\ UNCHANGED <<article_cache, article_stats, uses>>

CallFeedPut(t) ==
    \E feed_name \in FeedNames, articles \in ArticleLists :
       LET r == FeedCache_put(feed_cache, feed_stats, feed_name,
                              Feed(feed_name, articles), clock) IN
       /\ CacheCall(t, FeedCall("feed_put", feed_name, r))
       /\ feed_cache' = r.feeds
       /\ feed_stats' = r.stats
       /\ UNCHANGED <<article_cache, article_stats, uses>>

CallFeedRemove(t) ==
    \E feed_name \in FeedNames :
       LET r == FeedCache_remove(feed_cache, feed_stats, feed_name) IN
       /\ CacheCall(t, FeedCall("feed_remove", feed_name, r))
       /\ feed_cache' = r.feeds
       /\ feed_stats' = r.stats
       /\ UNCHANGED <<article_cache, article_stats, uses>>

CallFeedCleanup(t) ==
    LET r == FeedCache_cleanup_expired(feed_cache, feed_stats, clock) IN
    /\ CacheCall(t, FeedCall("feed_cleanup", None, r))
    /\ feed_cache' = r.feeds
    /\ feed_stats' = r.stats
    /\ UNCHANGED <<article_cache, article_stats, uses>>

InitCache ==
    /\ InitTree
    /\ NoServer
    /\ rdr = ReaderOff
    /\ callers \in {{"w1"}, {"w2"}}
    /\ opsLeft = MaxCacheOps
    /\ clock = 0
    /\ feed_cache = EmptyMap
    /\ feed_stats = CacheStats
    /\ article_cache \in {ArticleCache_new(n) : n \in CacheSizes}
    /\ article_stats = CacheStats
    /\ uses = <<>>
    /\ disk = NoDisk
    /\ obs = <<>>

NextCache ==
    \/ CallArticleGet("w1")
    \/ CallArticlePut("w1")
    \/ CallArticleRemove("w1")
    \/ CallArticleCleanup("w1")
    \/ CallFeedGet("w2")
    \/ CallFeedPut("w2")
    \/ CallFeedRemove("w2")
    \/ CallFeedCleanup("w2")
    \/ Tick

SpecCache == InitCache /\ [][NextCache]_vars

(***************************************************************************)
(* SpecRepo: one caller uses the repository (load_feed_cache_first,        *)
(* refresh_feed_background) while the time passes.  The storage holds the  *)
(* feed or not; the caches are built from the snapshot file, which is      *)
(* there or not; the server answers the first fetch or none.               *)
(***************************************************************************)
CallLoadFeedCacheFirst(t) == \E name \in FeedNames : Issue(t, GetFeedFrame(name))
CallRefreshFeedBackground(t) ==
    \E name \in FeedNames : Issue(t, RefreshFeedBackgroundFrame(name))

StoredFeeds == {None, Some(Feed(Tech, CachedArticles))}

InitRepo ==
    /\ InitTree
    /\ rdr = ReaderOff
    /\ callers = {"w1"}
    /\ opsLeft = MaxRepoOps
    /\ env = AnswersOn
    /\ repo \in [storage : StoredFeeds, fetcher : FetchScripts]
    /\ failedOnLoaded = FALSE
    /\ clock = 0
    /\ disk \in {NoDisk, CachedDisk}
    /\ CachesBuilt
    /\ obs = <<>>
    /\ commands = <<>>
    /\ session = NoSession
    /\ memory = NewMemory
    /\ locks = NoLocks

NextRepo ==
    \/ \E t \in Threads : CallLoadFeedCacheFirst(t)
    \/ \E t \in Threads : CallRefreshFeedBackground(t)
    \/ \E t \in Threads : ThreadStep(t)
    \/ Tick

SpecRepo == InitRepo /\ [][NextRepo]_vars

(***************************************************************************)
(* SpecUnmount: one call of FuseOperations::unmount, with the force flag   *)
(* or without, on any mount point; every command it runs can succeed (on a *)
(* mount point in the mount table), fail, or not be there.                 *)
(***************************************************************************)
CallUnmount == \E force \in BOOLEAN : Issue("main", UnmountFrame(force))

InitUnmount ==
    /\ InitTree
    /\ rdr = ReaderOff
    /\ callers = {"main"}
    /\ opsLeft = 1
    /\ env \in {e \in Environments : PossibleEnvironment(e)}
    /\ repo = [storage |-> None, fetcher |-> <<"fails">>]
    /\ failedOnLoaded = FALSE
    /\ clock = 0
    /\ disk = NoDisk
    /\ CachesBuilt
    /\ obs = <<>>
    /\ commands = <<>>
    /\ session = NoSession
    /\ memory = NewMemory
    /\ locks = NoLocks

NextUnmount ==
    \/ CallUnmount
    \/ \E t \in Threads : ThreadStep(t)

SpecUnmount == InitUnmount /\ [][NextUnmount]_vars

(***************************************************************************)
(* SpecShutdown: mount_foreground on a usable mount point, from the call   *)
(* of FuseOperations::mount to its return, with the periodic-refresh task  *)
(* and the auto-save task running and the shutdown signal sent at any      *)
(* time.  The server answers no fetch.                                     *)
(***************************************************************************)
CallMountForeground == Issue("main", MountForegroundFrame)

\* Ctrl+C
Signal ==
    /\ ~session.signalled
    /\ session' = [session EXCEPT !.signalled = TRUE]
    /\ UNCHANGED <<treeVars, histVars, thr, rdr, callers, opsLeft, mountVars, cacheVars,
                   commands, memory, locks>>

InitShutdown ==
    /\ nodes = MetaStructure.nodes
    /\ next_ino = MetaStructure.next_ino
    /\ name_to_ino = MetaStructure.name_to_ino
    /\ allocated = MetaStructure.allocated
    /\ feeds = EmptyMap
    /\ loading_status = EmptyMap
    /\ removedNonEmpty = FALSE
    /\ thr = [t \in Threads |->
                 IF t = "per" THEN Push(IdleThread, PeriodicFrame)
                 ELSE IF t = "autosave" THEN Push(IdleThread, AutoSaveFrame)
                 ELSE IdleThread]
    /\ rdr = ReaderOff
    /\ callers = {"main"}
    /\ opsLeft = 1
    /\ env = AnswersOn
    /\ repo = [storage |-> None, fetcher |-> <<"fails">>]
    /\ failedOnLoaded = FALSE
    /\ clock = 0
    /\ disk = NoDisk
    /\ CachesBuiltFrom(CachedDisk)
    /\ obs = <<>>
    /\ commands = <<>>
    /\ session = NoSession
    /\ memory = NewMemory
    /\ locks = NoLocks

NextShutdown ==
    \/ CallMountForeground
    \/ Signal
    \/ \E t \in Threads : ThreadStep(t)

SpecShutdown == InitShutdown /\ [][NextShutdown]_vars

(***************************************************************************)
(* The tree's consistency, as a reader obtains it from get_node,           *)
(* list_children and get_node_by_name in one state.                        *)
(***************************************************************************)
Quiescent == \A t \in Threads : Idle(thr[t])

Occurrences(seq, x) == Cardinality({k \in DOMAIN seq : seq[k] = x})

\* the node has a parent in the map, is listed once by it, and is indexed
NodeConsistent(i) ==
    LET n == nodes[i] IN
    /\ n.parent_ino \in DOMAIN nodes
    /\ Occurrences(nodes[n.parent_ino].children, i) = 1
    /\ <<n.parent_ino, n.name>> \in DOMAIN name_to_ino
    /\ name_to_ino[<<n.parent_ino, n.name>>] = i

TreeConsistent == \A i \in (DOMAIN nodes) \ {RootIno} : NodeConsistent(i)

\* C1 as stated: between the calls of a single caller, every non-root node has
\* its parent in the map, occurs exactly once in the parent's children, and is
\* what the (parent_ino, name) index resolves to.
C1_AnySequence == Quiescent => TreeConsistent

\* C1, amended: the same, for the sequences of calls in which remove_node is never
\* applied to a node that still has children (it does not remove the subtree).
C1_LeafRemovals == (Quiescent /\ ~removedNonEmpty) => TreeConsistent

\* a direct remove_node of a childless node has returned Ok, and a feed with an
\* article is in the tree
C1_Witness ==
    /\ Quiescent /\ ~removedNonEmpty
    /\ thr["w1"].last.call.fn = "remove_node" /\ thr["w1"].last.ret.ok
    /\ IsSome(get_node_by_name(RootIno, Tech))
    /\ list_children(Unwrap(get_node_by_name(RootIno, Tech)).ino) # <<>>

\* C2: every listing the reader obtains during the replacement is the old child
\* set or the new one: the directory is found, and its children are A, B, C or
\* X, Y, Z, W.
C2_OldOrNew ==
    rdr.obs.seen =>
        /\ rdr.obs.found
        /\ rdr.obs.names \in {FileNames(OldArticles), FileNames(NewArticles)}

\* C3: in no state does get_node return a non-root node that its parent's children
\* list lacks, nor does a children list hold an ino that is not in the map.  It is
\* stated for the behaviours in which no remove_node was applied to a node with
\* children, so that a violation is an effect of the interleaving alone; the claim
\* as written, without that condition, is violated a fortiori.
C3_NoTornTree ==
    ~removedNonEmpty =>
        /\ \A i \in (DOMAIN nodes) \ {RootIno} :
               /\ nodes[i].parent_ino \in DOMAIN nodes
               /\ i \in Range(nodes[nodes[i].parent_ino].children)
        /\ \A p \in DOMAIN nodes : Range(nodes[p].children) \subseteq DOMAIN nodes

\* C4: in every state the name index agrees with the map and the child lists: a
\* child that list_children(parent) returns is what get_node_by_name(parent, name)
\* resolves to, and a node that get_node_by_name resolves is in the children list
\* of that parent.  Stated, as C3, for the behaviours in which no remove_node was
\* applied to a node with children.
C4_IndexAgrees ==
    ~removedNonEmpty =>
        /\ \A p \in DOMAIN nodes :
               \A k \in DOMAIN list_children(p) :
                   LET child == list_children(p)[k]
                       found == get_node_by_name(p, child.name)
                   IN  IsSome(found) /\ Unwrap(found).ino = child.ino
        /\ \A key \in DOMAIN name_to_ino :
               LET found == get_node_by_name(key[1], key[2]) IN
               (IsSome(found) /\ Unwrap(found).ino # RootIno) =>
                   /\ key[1] \in DOMAIN nodes
                   /\ Unwrap(found).ino \in Range(nodes[key[1]].children)

\* C5: no directory ever has two children with the same name.
C5_SiblingNamesUnique ==
    \A a, b \in DOMAIN nodes :
        (a # b /\ a # RootIno /\ b # RootIno /\ nodes[a].parent_ino = nodes[b].parent_ino)
            => nodes[a].name # nodes[b].name

\* C6: the inos handed out are at least 2 and strictly increasing, so none is
\* handed out twice, whether its node still exists or was removed; every node of
\* the map and every create_node in progress carries an ino that was handed out
\* to it alone.
InosInProgress(t) ==
    {Unwrap(thr[t].stack[k].ino) : k \in {j \in DOMAIN thr[t].stack :
                                             /\ thr[t].stack[j].fn = "create_node"
                                             /\ IsSome(thr[t].stack[j].ino)}}

C6_InosFresh ==
    /\ \A k \in DOMAIN allocated : allocated[k] >= FirstIno
    /\ \A j, k \in DOMAIN allocated : j < k => allocated[j] < allocated[k]
    /\ (DOMAIN nodes) \ {RootIno} \subseteq Range(allocated)
    /\ \A t \in Threads : InosInProgress(t) \subseteq Range(allocated)
    /\ \A t, u \in Threads : t # u => InosInProgress(t) \cap InosInProgress(u) = {}
    /\ \A t \in Threads :
           (thr[t].last.call.fn = "create_node" /\ thr[t].last.ret.ok)
               => thr[t].last.ret.val \in Range(allocated)

\* an ino was handed out after the node of an earlier one had been removed, while
\* the other thread was inside create_node
C6_Witness ==
    /\ \E k \in DOMAIN allocated :
           /\ allocated[k] \notin DOMAIN nodes
           /\ \A t \in Threads : allocated[k] \notin InosInProgress(t)
           /\ k < Len(allocated)
           /\ allocated[Len(allocated)] \in DOMAIN nodes
    /\ \E t \in Threads : InosInProgress(t) # {}

\* C7: when add_feed has returned for a feed that had a directory when it was
\* called, the directory's ino is the one it had before the call.
C7_DirInoKept ==
    \A t \in Threads :
        LET l == thr[t].last IN
        (Idle(thr[t]) /\ l.call.fn = "add_feed" /\ IsSome(l.call.dir_before))
            => DirIno(l.call.feed.name) = l.call.dir_before

(***************************************************************************)
(* What a reader finds of a feed in the tree.                              *)
(***************************************************************************)
\* the names readdir returns for the feed's directory, if lookup finds it
FeedListing(name) ==
    LET dir == get_node_by_name(RootIno, name) IN
    IF IsSome(dir) THEN Listing(list_children(Unwrap(dir).ino)) ELSE NotFound

StatusTag(name) ==
    IF name \in DOMAIN loading_status THEN loading_status[name].tag ELSE "None"

ErrorFileName(name) == markdown_filename(ErrorArticle(name))

ErrorShown(name) ==
    /\ StatusTag(name) = "Error"
    /\ FeedListing(name).found
    /\ FeedListing(name).names = <<ErrorFileName(name)>>

NoErrorPlaceholder(name) ==
    /\ StatusTag(name) # "Error"
    /\ \A i \in DOMAIN nodes : nodes[i].name # ErrorFileName(name)

NoCopy == feed_cache = EmptyMap /\ repo.storage = None

\* C8: when the feed's server answers no fetch and the repository holds no copy
\* of the feed, then once the background-refresh task runs, the feed's status
\* eventually is Error and its directory lists the error placeholder alone.
C8_ErrorEventuallyShown ==
    (repo.fetcher = <<"fails">> /\ NoCopy /\ ~Idle(thr["bg"])) ~> ErrorShown(Tech)

\* the step in which thread t's refresh learns that the fetch failed
FailedRefresh(t) ==
    /\ ~Idle(thr[t])
    /\ Top(thr[t]).fn = "refresh_feed_background"
    /\ Top(thr[t]).pc = "fetch"
    /\ FetchOutcome(repo) = "fails"
    /\ thr'[t] # thr[t]

TreeWork ==
    {"add_feed", "add_error_placeholder", "add_loading_placeholder", "remove_feed",
     "create_article_file", "create_node", "remove_node"}

\* C9: a refresh that fails while the feed's content is in the tree changes
\* neither the tree nor the feed's status, and leaves its task nothing to do on
\* the tree; and after such a failure the feed never has an error placeholder
\* nor the status Error.
C9_FailedRefreshKeepsContent ==
    /\ [][\A t \in Tasks :
            (FailedRefresh(t) /\ CachedContentLoaded(Top(thr[t]).name)) =>
                /\ UNCHANGED <<nodes, name_to_ino, feeds, loading_status>>
                /\ \A k \in DOMAIN thr'[t].stack : thr'[t].stack[k].fn \notin TreeWork]_vars
    /\ [](failedOnLoaded => NoErrorPlaceholder(Tech))

\* the cached articles were loaded, the background refresh failed afterwards
\* and has ended, and the directory lists the cached articles
C9_Witness ==
    /\ failedOnLoaded
    /\ Idle(thr["bg"]) /\ thr["bg"].last.call.fn = "bg_refresh"
    /\ repo.storage = None
    /\ StatusTag(Tech) = "Loaded"
    /\ FeedListing(Tech).names = FileNames(CachedArticles)

\* listed as mounted, and reading the directory fails as on a dead mount
IsStale(e) == e.listed /\ e.read_dir \in StaleErrors

\* C10: for a stale mount point the mount command does not return the
\* already-mounted error.
C10_StaleNotRefused ==
    (IsStale(env) /\ thr["main"].last.call.fn = "mount")
        => thr["main"].last.ret # Err("AlreadyExists")

(***************************************************************************)
(* The persistent cache.                                                   *)
(***************************************************************************)
\* the snapshot file is the complete output of one save
CompleteFile(d) == IsSome(d.cache_file) /\ Parse(d.data[Unwrap(d.cache_file)]).ok
SavesReturned == {i \in DOMAIN obs : obs[i].op = "save"}
SaversIdle == \A t \in Threads : Idle(thr[t])

\* C11: with concurrent saves every save returns Ok, a reader finds no file or
\* the complete output of one save, and when all saves have returned the file
\* holds the output of the save that returned last.
C11_SavesNeverTear ==
    /\ \A i \in SavesReturned : obs[i].ret.ok
    /\ IsSome(disk.cache_file) => CompleteFile(disk)
    /\ (SaversIdle /\ obs # <<>> /\ obs[Len(obs)].op = "save") =>
          /\ IsSome(disk.cache_file)
          /\ disk.data[Unwrap(disk.cache_file)] = FileContent(obs[Len(obs)].doc)

\* the caller saved, and loaded at the instant the save returned
SavedThenLoaded ==
    /\ Len(obs) = 2
    /\ obs[1].op = "save" /\ obs[1].ret.ok
    /\ obs[2].op = "load" /\ obs[2].at = obs[1].at
NoneExpired(entries, now) == \A k \in DOMAIN entries : ~is_expired(entries[k], now)
SameData(loaded, entries) ==
    /\ DOMAIN loaded = DOMAIN entries
    /\ \A k \in DOMAIN entries : loaded[k].data = entries[k].data

\* C12: when no entry of the saved caches is expired, the load that follows the
\* save returns a snapshot with exactly the saved feed keys and article keys,
\* each with its data.
C12_SaveLoadRoundTrip ==
    (/\ SavedThenLoaded
     /\ NoneExpired(obs[1].feeds, obs[1].at)
     /\ NoneExpired(obs[1].articles, obs[1].at))
        => /\ obs[2].ret.ok
           /\ IsSome(obs[2].ret.val)
           /\ SameData(Unwrap(obs[2].ret.val).feeds, obs[1].feeds)
           /\ SameData(Unwrap(obs[2].ret.val).articles, obs[1].articles)

\* the document in the snapshot file a load found
FoundDoc(o) == Parse(o.disk.data[Unwrap(o.disk.cache_file)]).val
Passed(entries, now) ==
    [k \in {x \in DOMAIN entries : entries[x].expires_at > as_secs(now)} |-> entries[k]]

\* C13: load returns None when the file is absent, when its saved_at is more
\* than max_age_days in the past, or when its cache_version is not 1; for
\* every other readable document it returns the snapshot without the entries
\* whose expires_at has passed.
C13_LoadOutcome ==
    \A i \in DOMAIN obs :
        obs[i].op = "load" =>
            IF ~IsSome(obs[i].disk.cache_file) THEN obs[i].ret = Ok(None)
            ELSE CompleteFile(obs[i].disk) =>
                 IF \/ as_secs(obs[i].at) - FoundDoc(obs[i]).saved_at > max_age_days * SecsPerDay
                    \/ FoundDoc(obs[i]).cache_version # 1
                 THEN obs[i].ret = Ok(None)
                 ELSE obs[i].ret =
                        Ok(Some([FoundDoc(obs[i]) EXCEPT !.feeds = Passed(@, obs[i].at),
                                                       !.articles = Passed(@, obs[i].at)]))


(***************************************************************************)
(* The start of the mount command.                                         *)
(***************************************************************************)
AtConstruction ==
    /\ ~Idle(thr["main"])
    /\ Top(thr["main"]).fn = "mount"
    /\ Top(thr["main"]).pc = "with_persistent_cache"
CachesEmpty ==
    /\ feed_cache = EmptyMap
    /\ article_cache.lru = <<>>

\* C14: when the snapshot file cannot be read or parsed, the construction of
\* the repository leaves the caches empty and the mount command goes on to
\* its next step; it does not return the failure.
C14_LoadFailureTolerated ==
    [][(AtConstruction /\ ~load(disk, clock).ok /\ thr'["main"] # thr["main"])
          => /\ ~Idle(thr'["main"])
             /\ Top(thr'["main"]).pc = "is_mounted"
             /\ CachesEmpty']_vars


(***************************************************************************)
(* The caches.                                                             *)
(***************************************************************************)
IsGet(o) == o.op \in {"article_get", "feed_get"}
\* the entry a get call found under its key, if any
HeldEntry(o) ==
    IF o.op = "article_get"
    THEN IF o.key \in LruKeys(o.cache.lru) THEN Some(LruPeek(o.cache.lru, o.key)) ELSE None
    ELSE MapGet(o.cache, o.key)
NowHolds(o) ==
    IF o.op = "article_get" THEN o.key \in LruKeys(article_cache.lru)
    ELSE o.key \in DOMAIN feed_cache
NowStats(o) == IF o.op = "article_get" THEN article_stats ELSE feed_stats
PastExpiry(o) == IsSome(HeldEntry(o)) /\ o.at > Unwrap(HeldEntry(o)).expires_at

\* C15: a get of either cache returns a value only from an entry that has not
\* passed its expires_at at the time of the call; an entry the get finds
\* expired is removed by that call and counted as one expiration and one miss.
C15_GetNeverReturnsExpired ==
    \A i \in DOMAIN obs :
       LET o == obs[i] IN
       IsGet(o) =>
          /\ IsSome(o.ret) =>
                /\ IsSome(HeldEntry(o))
                /\ ~PastExpiry(o)
                /\ o.ret = Some(Unwrap(HeldEntry(o)).data)
          /\ PastExpiry(o) =>
                /\ o.ret = None
                /\ ~NowHolds(o)
                /\ NowStats(o).expirations = o.stats.expirations + 1
                /\ NowStats(o).misses = o.stats.misses + 1
                /\ NowStats(o).hits = o.stats.hits

\* a get has found an entry past its expiry, after puts and the passage of time
C15_Witness ==
    /\ obs # <<>>
    /\ obs[1].op = "article_get"
    /\ PastExpiry(obs[1])
    /\ Len(obs[1].cache.lru) > 1

Pos(us, k) == CHOOSE i \in DOMAIN us : us[i] = k
\* k is, of the keys, the one whose last insert or successful read is the oldest
IsLeastRecent(us, keys, k) ==
    /\ k \in keys
    /\ \A k2 \in keys \ {k} : Pos(us, k) < Pos(us, k2)

\* a put of a key the cache does not hold, into a cache with max_entries entries
PutIntoFull(o) ==
    /\ o.op = "article_put"
    /\ o.key \notin LruKeys(o.cache.lru)
    /\ Len(o.cache.lru) >= o.cache.max_entries

PutEvictsLeastRecent ==
    \A i \in DOMAIN obs :
       LET o == obs[i] IN
       PutIntoFull(o) =>
          \E victim \in LruKeys(o.cache.lru) :
             /\ IsLeastRecent(o.uses, LruKeys(o.cache.lru), victim)
             /\ LruKeys(article_cache.lru) = (LruKeys(o.cache.lru) \ {victim}) \cup {o.key}

\* C16 as stated: the article cache never holds more than max_entries entries,
\* and a put of a new key into a full cache removes exactly one entry, the one
\* least recently inserted or successfully read.
C16_AtMostMaxEntries ==
    /\ Len(article_cache.lru) <= article_cache.max_entries
    /\ PutEvictsLeastRecent

\* C16, for a cache built with max_entries of at least 1: it never holds more
\* than max_entries entries, and a put of a new key into a full cache removes
\* exactly one entry, the one least recently inserted or successfully read.
C16_AtMostMaxEntriesPositive ==
    article_cache.max_entries >= 1 => C16_AtMostMaxEntries

\* a put of a new key has found two entries in a cache of two, one of them read
\* since it was inserted
C16_Witness ==
    /\ obs # <<>>
    /\ PutIntoFull(obs[1])
    /\ obs[1].cache.max_entries = 2
    /\ \E j \in DOMAIN obs[1].cache.lru : obs[1].cache.lru[j].entry.access_count > 0
    /\ Len(article_cache.lru) = 2


(***************************************************************************)
(* The repository.                                                         *)
(***************************************************************************)
Running(t, fn) == ~Idle(thr[t]) /\ thr[t].stack[1].fn = fn
Returns(t) == ~Idle(thr[t]) /\ Idle(thr'[t])
Steps(t) == thr'[t] # thr[t]

\* C17: refresh_feed_background returns no error; when the fetch fails it
\* returns None and the feed cache, the article cache, the storage and the
\* snapshot file are as they were.
C17_FailedRefreshChangesNothing ==
    [][\A t \in Threads :
         (Running(t, "refresh_feed_background") /\ Steps(t)) =>
            /\ Returns(t) => thr'[t].ret.ok
            /\ (Top(thr[t]).pc = "fetch" /\ FetchOutcome(repo) # "ok") =>
                  /\ Returns(t)
                  /\ thr'[t].ret = Ok(None)
                  /\ UNCHANGED <<feed_cache, article_cache, disk>>
                  /\ repo'.storage = repo.storage]_vars

\* a refresh has failed after an earlier one had filled the caches, the
\* storage and the snapshot file
C17_Witness ==
    /\ thr["w1"].last.call.fn = "refresh_feed_background"
    /\ thr["w1"].last.ret = Ok(None)
    /\ repo.storage = Some(Feed(Tech, FetchedArticles))
    /\ Tech \in DOMAIN feed_cache
    /\ CompleteFile(disk)

\* the feed cache holds an entry for the name that has not passed its expiry
CacheHolds(name) ==
    /\ name \in DOMAIN feed_cache
    /\ clock <= feed_cache[name].expires_at

UnmountCall ==
    IF Idle(thr["main"]) THEN thr["main"].last.call ELSE thr["main"].stack[1]
UnmountReturned == Idle(thr["main"]) /\ thr["main"].last.call.fn = "unmount"
\* the call found the mount point there and in the mount table
OnMounted(call) == call.existed = Some(TRUE) /\ call.mounted = Some(TRUE)

\* the commands of the three unmount strategies
Tries == {i \in DOMAIN commands : commands[i].fn # "kill_mount_users"}
TriesOf(fn) == {i \in Tries : commands[i].fn = fn}
Rank(fn) ==
    CASE fn = "try_graceful_unmount" -> 1
      [] fn = "try_force_unmount" -> 2
      [] fn = "try_lazy_unmount" -> 3
Succeeded == \E i \in Tries : commands[i].ok

\* C19: on an existing, mounted mount point unmount tries, with the force flag
\* and without it, the graceful unmount first (at most 3 attempts), then the
\* force unmount, then (only with the force flag) the lazy unmount; it tries
\* nothing after the first success and returns Ok exactly when a try succeeded.
C19_UnmountEscalates ==
    (UnmountReturned /\ OnMounted(UnmountCall)) =>
       /\ 1 \in TriesOf("try_graceful_unmount")
       /\ Cardinality({i \in TriesOf("try_graceful_unmount") :
                          commands[i].cmd = "fusermount -u"}) <= 3
       /\ \A i, j \in Tries : i < j => Rank(commands[i].fn) <= Rank(commands[j].fn)
       /\ TriesOf("try_lazy_unmount") # {} => UnmountCall.force
       /\ ~Succeeded =>
             /\ TriesOf("try_force_unmount") # {}
             /\ UnmountCall.force => TriesOf("try_lazy_unmount") # {}
       /\ \A i \in Tries : commands[i].ok => i = Len(commands)
       /\ thr["main"].last.ret.ok <=> Succeeded

\* C20: without the force flag unmount never kills the processes that hold
\* the mount point and never tries the lazy unmount.
C20_NoKillNoLazyWithoutForce ==
    (UnmountCall.fn = "unmount" /\ ~UnmountCall.force) =>
       \A i \in DOMAIN commands :
          commands[i].fn \notin {"kill_mount_users", "try_lazy_unmount"}

\* without the force flag, on a busy mount point, every graceful and force
\* try has failed and unmount has returned the error
C20_Witness ==
    /\ UnmountReturned
    /\ ~UnmountCall.force
    /\ OnMounted(UnmountCall)
    /\ UnmountCall.busy = Some(TRUE)
    /\ thr["main"].last.ret = Err("Fuse")
    /\ TriesOf("try_force_unmount") # {}


(***************************************************************************)
(* The shutdown.                                                           *)
(***************************************************************************)
\* mount_foreground is running on main; its frame
InForeground == ~Idle(thr["main"]) /\ thr["main"].stack[1].fn = "mount_foreground"
Foreground == thr["main"].stack[1]
\* mount_foreground has returned after wait_for_shutdown did
ShutDown ==
    /\ Idle(thr["main"])
    /\ thr["main"].last.call.fn = "mount_foreground"
    /\ IsSome(thr["main"].last.call.heard)
UnmountRunning == InForeground /\ Top(thr["main"]).fn = "unmount"

\* C21: after wait_for_shutdown returns, mount_foreground runs save_cache and,
\* only when that has returned, unmount with force = false; the unmount is run
\* also when the save has failed, and mount_foreground returns Ok whatever the
\* two have returned.
C21_ShutdownSavesThenUnmounts ==
    /\ UnmountRunning =>
          /\ IsSome(Foreground.saved)
          /\ ~Top(thr["main"]).force
    /\ (InForeground /\ ~IsSome(Foreground.saved)) => commands = <<>>
    /\ ShutDown =>
          /\ IsSome(thr["main"].last.call.saved)
          /\ IsSome(thr["main"].last.call.unmounted)
          /\ thr["main"].last.ret = Ok(None)

\* the shutdown has ended after the save and every unmount command had failed
C21_Witness ==
    /\ ShutDown
    /\ thr["main"].last.call.heard = Some("signal")
    /\ ~Unwrap(thr["main"].last.call.saved).ok
    /\ ~Unwrap(thr["main"].last.call.unmounted).ok
    /\ commands # <<>>

\* the shutdown signal has been received: wait_for_shutdown has returned on it
\* and mount_foreground has not returned yet
SignalReceived == InForeground /\ Foreground.heard = Some("signal")
\* the periodic-refresh loop starts a cycle
CycleStarts ==
    /\ ~Idle(thr["per"]) /\ Top(thr["per"]).pc = "tick"
    /\ ~Idle(thr'["per"]) /\ Top(thr'["per"]).pc = "join"

\* C22: once the shutdown signal has been received the periodic-refresh loop
\* starts no further refresh cycle.
C22_NoCycleAfterSignal ==
    [][SignalReceived => ~CycleStarts]_vars

\* C30: when fuser::mount2 has failed, mount_foreground has not been told by
\* FuseOperations::mount that the filesystem is mounted: it is not waiting for
\* the shutdown signal, nor shutting down.
C30_MountFailureSurfaced ==
    session.registered = Some(FALSE) =>
       /\ ~(InForeground /\ Foreground.mounted = Some(Ok(None)))
       /\ ~(Idle(thr["main"]) /\ thr["main"].last.call.fn = "mount_foreground"
              /\ thr["main"].last.ret.ok)

(***************************************************************************)
(* SpecRefreshRace: two refresh attempts of the feed tech end in add_feed  *)
(* at the same time (the background refresh and a task of the periodic     *)
(* refresh, or the tasks of two cycles), each with the articles it fetched. *)
(* What a reader obtains from list_children is a function of the state it  *)
(* is called in, as in Spec.                                               *)
(***************************************************************************)
RefreshedArticles(t) ==
    IF t = "w1" THEN <<Art("A"), Art("B")>> ELSE <<Art("X"), Art("Y")>>

CallRefreshAddFeed(t) ==
    /\ thr[t].last.call = NoCall
    /\ Issue(t, AddFeedFrame(Feed(Tech, RefreshedArticles(t)), DirIno(Tech)))

InitRefreshRace ==
    /\ InitTree
    /\ NoMount
    /\ rdr = ReaderOff
    /\ callers = Writers
    /\ opsLeft = 2

NextRefreshRace ==
    \/ \E t \in Writers : CallRefreshAddFeed(t)
    \/ \E t \in Threads : ThreadStep(t)

SpecRefreshRace == InitRefreshRace /\ [][NextRefreshRace]_vars

BothRefreshed ==
    \A t \in Writers : Idle(thr[t]) /\ thr[t].last.call.fn = "add_feed"

\* the tree shows the feed with these articles, and the feeds map holds them
FeedIs(articles) ==
    LET dir == get_node_by_name(RootIno, Tech) IN
    /\ IsSome(dir)
    /\ Listing(list_children(Unwrap(dir).ino)).names = FileNames(articles)
    /\ MapGet(feeds, Tech) = Some(Feed(Tech, articles))

\* C23: once the two concurrent add_feed calls of a feed have returned, the
\* directory's children are the articles of one of the two feeds and the feeds
\* map holds that feed; and no listing of the directory, in any state, holds
\* children of both.
C23_OneRefreshWins ==
    /\ BothRefreshed => \E t \in Writers : FeedIs(RefreshedArticles(t))
    /\ \A i \in DOMAIN nodes :
           nodes[i].node_type = FeedDirectory(Tech) =>
               \E t \in Writers :
                   Range(Listing(list_children(i)).names)
                       \subseteq Range(FileNames(RefreshedArticles(t)))

(***************************************************************************)
(* lookup and getattr (impl Filesystem for RssFuseFilesystem).  Each takes *)
(* the locks of the inode manager to resolve the node, then the lock of    *)
(* loading_status to choose the TTL: two steps of the kernel's request.    *)
(***************************************************************************)
\* self.loading_status of the filesystem value that serves the kernel: the clone
\* of the session when FuseOperations::mount has made one, else the value the
\* handlers are called on directly
ServingStatus ==
    IF IsSome(session.fs) THEN Unwrap(session.fs).loading_status ELSE loading_status

\* RssFuseFilesystem::get_ttl_for_node, in seconds
get_ttl_for_node(node) ==
    LET status == MapGet(ServingStatus, Unwrap(node.node_type.feed)) IN
    CASE node.node_type.tag = "FeedDirectory" ->
           (CASE status = None -> 1
              [] status = Some(Loading) -> 0
              [] status = Some(Loaded) -> 30
              [] OTHER -> 2)
      [] node.node_type.tag = "ArticleFile" ->
           (CASE status = None -> 1
              [] status = Some(Loading) -> 0
              [] status = Some(Loaded) -> 60
              [] OTHER -> 2)
      [] OTHER -> 10

\* RssFuseFilesystem::node_to_file_attr (the size is not modelled)
node_to_file_attr(node) ==
    [ino |-> node.ino, kind |-> node.file_type,
     perm |-> IF node.file_type = "Directory" THEN "0o755" ELSE "0o644"]

IsLoadingPlaceholder(node) ==
    \E feed_name \in FeedNames :
        node.node_type = ArticleFile(feed_name, LoadingArticle(feed_name))

\* the node is a loading placeholder file, or a directory that holds one
ShowsLoadingPlaceholder(node) ==
    \/ IsLoadingPlaceholder(node)
    \/ /\ node.node_type.tag = "FeedDirectory"
       /\ \E k \in DOMAIN node.children :
              /\ node.children[k] \in DOMAIN nodes
              /\ IsLoadingPlaceholder(nodes[node.children[k]])

NoReply == [seen |-> FALSE]
ENOENT == [seen |-> TRUE, ok |-> FALSE, errno |-> "ENOENT"]
\* reply.entry / reply.attr; placeholder is what the node showed when it was resolved
Entry(req, ttl) ==
    [seen |-> TRUE, ok |-> TRUE, op |-> req.op, node |-> req.node,
     placeholder |-> req.placeholder, ttl |-> ttl, attr |-> node_to_file_attr(req.node)]

KernelIdle == [on |-> TRUE, keeps |-> TRUE, pc |-> "request", dir |-> RootIno,
               obs |-> NoReply]

\* the names the kernel looks up
LookupNames == {Tech, markdown_filename(LoadingArticle(Tech))}

Resolved(op, found) ==
    IF IsSome(found)
    THEN [KernelIdle EXCEPT !.pc = "get_ttl_for_node"] @@
         [op |-> op, node |-> Unwrap(found),
          placeholder |-> ShowsLoadingPlaceholder(Unwrap(found))]
    ELSE [KernelIdle EXCEPT !.obs = ENOENT]

KernelUnchanged ==
    UNCHANGED <<treeVars, histVars, thr, callers, opsLeft, mountVars, cacheVars,
                commands, session, memory, locks>>

\* lookup, to the node
Lookup ==
    /\ rdr.pc = "request"
    /\ \E parent \in DOMAIN nodes, name \in LookupNames :
           rdr' = Resolved("lookup", get_node_by_name(parent, name))
    /\ KernelUnchanged

\* getattr, to the node
GetAttr ==
    /\ rdr.pc = "request"
    /\ \E ino \in 1..(next_ino - 1) : rdr' = Resolved("getattr", get_node(ino))
    /\ KernelUnchanged

\* lookup and getattr, from the node to the reply
ReplyWithTtl ==
    /\ rdr.pc = "get_ttl_for_node"
    /\ rdr' = [KernelIdle EXCEPT !.obs = Entry(rdr, get_ttl_for_node(rdr.node))]
    /\ KernelUnchanged

(***************************************************************************)
(* SpecPlaceholder: the feed tech is shown with its loading placeholder;   *)
(* one thread replaces it with add_feed or add_error_placeholder while the *)
(* kernel sends lookup and getattr requests.                               *)
(***************************************************************************)
PlaceholderSetup ==
    /\ opsLeft = 2
    /\ Issue("w1", AddLoadingPlaceholderFrame(Tech))

PlaceholderReplaced ==
    /\ opsLeft = 1
    /\ \/ \E articles \in ArticleLists :
              Issue("w1", AddFeedFrame(Feed(Tech, articles), DirIno(Tech)))
       \/ Issue("w1", AddErrorPlaceholderFrame(Tech, "Network"))

InitPlaceholder ==
    /\ InitTree
    /\ NoMount
    /\ rdr = KernelIdle
    /\ callers = {"w1"}
    /\ opsLeft = 2

NextPlaceholder ==
    \/ PlaceholderSetup
    \/ PlaceholderReplaced
    \/ \E t \in Threads : ThreadStep(t)
    \/ Lookup
    \/ GetAttr
    \/ ReplyWithTtl

SpecPlaceholder == InitPlaceholder /\ [][NextPlaceholder]_vars

\* C24: every lookup or getattr that resolves the loading placeholder file of a
\* feed, or the directory still holding it, replies with TTL 0.
C24_PlaceholderNeverCached ==
    (rdr.obs.seen /\ rdr.obs.ok /\ rdr.obs.placeholder) => rdr.obs.ttl = 0

(***************************************************************************)
(* readdir and read (impl Filesystem for RssFuseFilesystem).  Each resolves *)
(* the node with get_node, then takes the lock of the node map again       *)
(* (list_children, get_article_content): two steps of the kernel's         *)
(* request.  An input of the request is drawn at the step that reads it.   *)
(***************************************************************************)
\* the largest offset of a readdir request
MaxDirOffset == 3
\* the entries the reply buffer of a readdir request takes, at most
MaxDirEntries == 6
\* the largest offset and the largest size of a read request
MaxReadOffset == 5
MaxReadSize == 4

DirEntry(ino, offset, kind, name) ==
    [ino |-> ino, offset |-> offset, kind |-> kind, name |-> name]

\* the entries readdir builds before it applies the offset
readdir_entries(node, children) ==
    <<DirEntry(RootIno, 1, "Directory", <<".">>),
      DirEntry(node.parent_ino, 2, "Directory", <<".", ".">>)>>
    \o [k \in DOMAIN children |->
           DirEntry(children[k].ino, k + 2, children[k].file_type, children[k].name)]

\* enumerate().skip(offset), reply.add until the buffer is full
readdir_reply(entries, offset, room) ==
    SubSeq(entries, offset + 1,
           IF Len(entries) - offset > room THEN offset + room ELSE Len(entries))

Errno(op, e) == [seen |-> TRUE, ok |-> FALSE, op |-> op, errno |-> e]

ReadDir ==
    /\ rdr.pc = "request"
    /\ \E ino \in 1..next_ino :
           LET node == get_node(ino) IN
           rdr' = IF ~IsSome(node) THEN [KernelIdle EXCEPT !.obs = Errno("readdir", "ENOENT")]
                  ELSE IF ~is_directory(Unwrap(node))
                  THEN [KernelIdle EXCEPT !.obs = Errno("readdir", "ENOTDIR") @@
                                                  [node |-> Unwrap(node)]]
                  ELSE [KernelIdle EXCEPT !.pc = "list_children"] @@ [node |-> Unwrap(node)]
    /\ KernelUnchanged

ReadDirReply ==
    /\ rdr.pc = "list_children"
    /\ \E offset \in 0..MaxDirOffset, room \in {1, MaxDirEntries} :
           LET children == list_children(rdr.node.ino) IN
           rdr' = [KernelIdle EXCEPT !.obs =
                      [seen |-> TRUE, ok |-> TRUE, op |-> "readdir", node |-> rdr.node,
                       offset |-> offset, room |-> room, children |-> children,
                       entries |-> readdir_reply(readdir_entries(rdr.node, children),
                                                 offset, room)]]
    /\ KernelUnchanged

\* Article::to_markdown: the bytes of the document, which holds the article's guid
to_markdown(article, feed_name) == article.id \o <<"\n">>

\* InodeManager::get_article_content
get_article_content(ino) ==
    IF ino \in DOMAIN nodes /\ nodes[ino].node_type.tag = "ArticleFile"
    THEN Some(to_markdown(Unwrap(nodes[ino].node_type.article),
                          Unwrap(nodes[ino].node_type.feed)))
    ELSE None

\* RssFuseFilesystem.config_content: String::new(), and update_config is not called
config_content == <<>>

\* a read that hands out everything from the offset on
read_data_unbounded(content, offset, size) ==
    IF offset >= Len(content) THEN <<>> ELSE SubSeq(content, offset + 1, Len(content))

\* read: the slice of the content
read_data(content, offset, size) ==
    LET end == IF offset + size < Len(content) THEN offset + size ELSE Len(content) IN
    IF offset >= Len(content) THEN <<>> ELSE SubSeq(content, offset + 1, end)

\* history: the bytes returned by the reads of one file that started at offset 0
\* and advanced, each, by the number of bytes the one before returned
Chained(before, node, offset, data) ==
    IF offset = 0 THEN Some([bytes |-> data, reads |-> 1])
    ELSE IF /\ before.seen /\ before.ok /\ before.op = "read"
            /\ before.node.ino = node.ino
            /\ IsSome(before.chain)
            /\ Len(Unwrap(before.chain).bytes) = offset
            /\ before.data # <<>>
         THEN Some([bytes |-> Unwrap(before.chain).bytes \o data,
                    reads |-> Unwrap(before.chain).reads + 1])
         ELSE None

Read ==
    /\ rdr.pc = "request"
    /\ \E ino \in 1..next_ino :
           LET node == get_node(ino) IN
           rdr' = IF ~IsSome(node) THEN [KernelIdle EXCEPT !.obs = Errno("read", "ENOENT")]
                  ELSE IF is_directory(Unwrap(node))
                  THEN [KernelIdle EXCEPT !.obs = Errno("read", "EISDIR")]
                  ELSE [rdr EXCEPT !.pc = "content"] @@ [node |-> Unwrap(node)]
    /\ KernelUnchanged

ReadReply ==
    /\ rdr.pc = "content"
    /\ LET tag == rdr.node.node_type.tag
           content == IF tag = "ArticleFile" THEN get_article_content(rdr.node.ino)
                      ELSE IF tag = "ConfigFile" THEN Some(config_content)
                      ELSE None
       IN  \E offset \in 0..MaxReadOffset, size \in 0..MaxReadSize :
           rdr' = IF ~IsSome(content)
                  THEN [KernelIdle EXCEPT !.obs =
                           Errno("read", IF tag = "ArticleFile" THEN "ENOENT" ELSE "EINVAL")]
                  ELSE [KernelIdle EXCEPT !.obs =
                           LET data == read_data(Unwrap(content), offset, size) IN
                           [seen |-> TRUE, ok |-> TRUE, op |-> "read", node |-> rdr.node,
                            offset |-> offset, size |-> size, data |-> data,
                            chain |-> Chained(rdr.obs, rdr.node, offset, data)]]
    /\ KernelUnchanged

(***************************************************************************)
(* SpecKernel: one thread issues calls of the feed API, one after the      *)
(* other, while the kernel sends readdir requests.  SpecRead: the same     *)
(* with read requests.                                                     *)
(***************************************************************************)
MaxKernelOps == 2
MaxReadOps == 1

InitKernel ==
    /\ InitTree
    /\ NoMount
    /\ rdr = KernelIdle
    /\ callers = {"w1"}
    /\ opsLeft = MaxKernelOps

NextKernel ==
    \/ CallAddLoadingPlaceholder("w1")
    \/ CallAddErrorPlaceholder("w1")
    \/ CallAddFeed("w1")
    \/ CallRemoveFeed("w1")
    \/ \E t \in Threads : ThreadStep(t)
    \/ ReadDir
    \/ ReadDirReply

SpecKernel == InitKernel /\ [][NextKernel]_vars

InitRead ==
    /\ InitTree
    /\ NoMount
    /\ rdr = KernelIdle
    /\ callers = {"w1"}
    /\ opsLeft = MaxReadOps

NextRead ==
    \/ CallAddLoadingPlaceholder("w1")
    \/ CallAddErrorPlaceholder("w1")
    \/ CallAddFeed("w1")
    \/ CallRemoveFeed("w1")
    \/ \E t \in Threads : ThreadStep(t)
    \/ Read
    \/ ReadReply

SpecRead == InitRead /\ [][NextRead]_vars

Skip(seq, n) == SubSeq(seq, n + 1, Len(seq))

\* what the claim lists: ".", "..", then the children in the order of the list
Listed(node, children) ==
    <<[ino |-> node.ino, name |-> <<".">>],
      [ino |-> node.parent_ino, name |-> <<".", ".">>]>>
    \o [k \in DOMAIN children |-> [ino |-> children[k].ino, name |-> children[k].name]]

InoAndName(entries) ==
    [k \in DOMAIN entries |-> [ino |-> entries[k].ino, name |-> entries[k].name]]

ReadDirReplied == rdr.obs.seen /\ rdr.obs.op = "readdir"

\* C25: a readdir whose buffer takes all the entries replies with "." carrying
\* the directory's ino, ".." carrying its parent's ino, then the children in
\* insertion order, less the first offset entries; it replies ENOENT for an
\* unknown ino and ENOTDIR for a regular file.
C25_ReadDirEntries ==
    ReadDirReplied =>
        /\ (rdr.obs.ok /\ rdr.obs.room = MaxDirEntries) =>
               InoAndName(rdr.obs.entries)
                   = Skip(Listed(rdr.obs.node, rdr.obs.children), rdr.obs.offset)
        /\ ~rdr.obs.ok => rdr.obs.errno \in {"ENOENT", "ENOTDIR"}

ReadReplied == rdr.obs.seen /\ rdr.obs.ok /\ rdr.obs.op = "read"

\* the content of a regular file, as read chooses it
ContentOf(node) ==
    IF node.node_type.tag = "ArticleFile"
    THEN to_markdown(Unwrap(node.node_type.article), Unwrap(node.node_type.feed))
    ELSE config_content

\* the bytes [from, to) of the content, counted from 0
Bytes(content, from, to) ==
    IF to > from THEN [k \in 1..(to - from) |-> content[from + k]] ELSE <<>>

Min(a, b) == IF a < b THEN a ELSE b

\* C26: a read of a regular file of length L at an offset >= 0 returns the bytes
\* [offset, min(offset + size, L)) of the content, nothing when offset >= L, and
\* the whole content for read(0, L); reads that start at 0 and advance by the
\* bytes returned have returned a prefix of the content, and all of it once a
\* read of a positive size returns nothing.
C26_ReadSlices ==
    ReadReplied =>
        LET content == ContentOf(rdr.obs.node)
            L == Len(content)
            offset == rdr.obs.offset
            data == rdr.obs.data
        IN  /\ data = Bytes(content, offset, Min(offset + rdr.obs.size, L))
            /\ offset >= L => data = <<>>
            /\ (offset = 0 /\ rdr.obs.size = L) => data = content
            /\ IsSome(rdr.obs.chain) =>
                   /\ Unwrap(rdr.obs.chain).bytes = Bytes(content, 0, offset + Len(data))
                   /\ (data = <<>> /\ rdr.obs.size > 0) =>
                          Unwrap(rdr.obs.chain).bytes = content

\* an article has been read to its end in three reads or more
C26_Witness ==
    /\ ReadReplied
    /\ rdr.obs.node.node_type = ArticleFile(Tech, Art("A"))
    /\ IsSome(rdr.obs.chain)
    /\ Unwrap(rdr.obs.chain).reads >= 3
    /\ rdr.obs.data = <<>> /\ rdr.obs.size > 0
    /\ Unwrap(rdr.obs.chain).bytes = <<"g", "-", "A", "\n">>

(***************************************************************************)
(* SpecTitles: one thread calls add_feed and remove_feed, one after the    *)
(* other, with article lists in which two articles have the same title or  *)
(* titles that markdown_filename maps to the same file name.               *)
(***************************************************************************)
MaxTitleOps == 2

Titled(n, title) == Article(<<"g", "-", n>>, title)

TitledLists ==
    {<<Titled("1", <<"A">>)>>,
     <<Titled("1", <<"A">>), Titled("2", <<"B">>)>>,
     <<Titled("1", <<"A">>), Titled("2", <<"A">>)>>,
     <<Titled("1", <<"a", "/", "b">>), Titled("2", <<"a", ":", "b">>)>>}

CallAddTitledFeed ==
    \E articles \in TitledLists :
        Issue("w1", AddFeedFrame(Feed(Tech, articles), DirIno(Tech)))

InitTitles ==
    /\ InitTree
    /\ NoMount
    /\ rdr = ReaderOff
    /\ callers = {"w1"}
    /\ opsLeft = MaxTitleOps

NextTitles ==
    \/ CallAddTitledFeed
    \/ CallRemoveFeed("w1")
    \/ \E t \in Threads : ThreadStep(t)

SpecTitles == InitTitles /\ [][NextTitles]_vars

\* add_feed has returned, on a tree that did not contain the feed when it was called
AddedToFreshTree ==
    /\ Idle(thr["w1"])
    /\ thr["w1"].last.call.fn = "add_feed"
    /\ thr["w1"].last.call.dir_before = None

\* C27: after add_feed on a tree without the feed, the feed's directory has one
\* child per article, named markdown_filename of the article, in the order of the
\* list, and the tree has 1 + |articles| nodes more than before.
C27_OneChildPerArticle ==
    AddedToFreshTree =>
        LET feed == thr["w1"].last.call.feed
            dir == get_node_by_name(RootIno, feed.name)
        IN  /\ IsSome(dir)
            /\ Listing(list_children(Unwrap(dir).ino)).names = FileNames(feed.articles)
            /\ Cardinality(DOMAIN nodes)
                   = Cardinality(DOMAIN MetaStructure.nodes) + 1 + Len(feed.articles)

(***************************************************************************)
(* SpecFeedOps: two threads call add_loading_placeholder, add_feed,        *)
(* add_error_placeholder and remove_feed in any interleaving, for a feed   *)
(* named tech and for a feed named as the metadata directory, .rss-fuse.   *)
(***************************************************************************)
MaxFeedOps == 2

AnyFeedNames == {Tech, MetaName}

CallFeedOp(t) ==
    \E feed_name \in AnyFeedNames :
        \/ Issue(t, AddLoadingPlaceholderFrame(feed_name))
        \/ Issue(t, AddFeedFrame(Feed(feed_name, <<Art("A")>>), DirIno(feed_name)))
        \/ Issue(t, AddErrorPlaceholderFrame(feed_name, "Network"))
        \/ Issue(t, RemoveFeedFrame(feed_name))

InitFeedOps ==
    /\ InitTree
    /\ NoMount
    /\ rdr = ReaderOff
    /\ callers = Writers
    /\ opsLeft = MaxFeedOps

NextFeedOps ==
    \/ \E t \in Writers : CallFeedOp(t)
    \/ \E t \in Threads : ThreadStep(t)

SpecFeedOps == InitFeedOps /\ [][NextFeedOps]_vars

\* C28: every ArticleFile(feed, _) node in the map is a child of a node of the
\* map that is FeedDirectory(feed).
C28_ArticlesUnderTheirFeed ==
    \A i \in DOMAIN nodes :
        nodes[i].node_type.tag = "ArticleFile" =>
            /\ nodes[i].parent_ino \in DOMAIN nodes
            /\ nodes[nodes[i].parent_ino].node_type
                   = FeedDirectory(Unwrap(nodes[i].node_type.feed))
            /\ i \in Range(nodes[nodes[i].parent_ino].children)

ChildNames(ino) == Listing(list_children(ino)).names

\* C29: between the calls, root has a child .rss-fuse of kind MetaDirectory whose
\* children are logs, cache and config.toml, and every other child of root is a
\* FeedDirectory.
C29_MetaStructureKept ==
    Quiescent =>
        LET meta == get_node_by_name(RootIno, MetaName)
            top == list_children(RootIno)
        IN  /\ IsSome(meta)
            /\ Unwrap(meta).node_type = MetaDirectory
            /\ Unwrap(meta).ino \in Range(nodes[RootIno].children)
            /\ ChildNames(Unwrap(meta).ino) = <<LogsName, CacheName, ConfigName>>
            /\ \A k \in DOMAIN top :
                   top[k].ino # Unwrap(meta).ino => top[k].node_type.tag = "FeedDirectory"

(***************************************************************************)
(* SpecFeedRepo: one caller of the FeedRepository API calls save_feed and  *)
(* get_feed for the feed tech, one after the other, while time passes; the *)
(* storage holds the feed at the start, or does not.                       *)
(***************************************************************************)
MaxFeedRepoOps == 3

SavedFeeds == {Feed(Tech, CachedArticles), Feed(Tech, FetchedArticles)}

CallSaveFeed(t) ==
    \E feed \in SavedFeeds : Issue(t, SaveFeedFrame(feed, thr[t].last))

\* get_feed; prev is history, as in SaveFeedFrame
CallGetFeed(t) ==
    \E name \in FeedNames : Issue(t, GetFeedFrame(name) @@ [prev |-> thr[t].last])

InitFeedRepo ==
    /\ InitTree
    /\ rdr = ReaderOff
    /\ callers = {"w1"}
    /\ opsLeft = MaxFeedRepoOps
    /\ env = AnswersOn
    /\ repo \in [storage : StoredFeeds, fetcher : {<<"ok">>}]
    /\ failedOnLoaded = FALSE
    /\ clock = 0
    /\ disk = NoDisk
    /\ CachesBuiltFrom(NoDisk)
    /\ obs = <<>>
    /\ commands = <<>>
    /\ session = NoSession
    /\ memory = NewMemory
    /\ locks = NoLocks

NextFeedRepo ==
    \/ CallSaveFeed("w1")
    \/ CallGetFeed("w1")
    \/ \E t \in Threads : ThreadStep(t)
    \/ Tick

SpecFeedRepo == InitFeedRepo /\ [][NextFeedRepo]_vars

GetFeedRuns(t) == Running(t, "get_feed_from_cache_or_storage") /\ Steps(t)

\* C31: get_feed returns the cached feed when the feed cache holds an unexpired
\* entry for the name, without reading the storage; otherwise it returns the
\* storage's feed and leaves it in the feed cache with a full lifetime, and None
\* when the storage has none; a get_feed that follows save_feed(f) returns f.
C31_GetFeedCacheThenStorage ==
    [][\A t \in Threads :
         GetFeedRuns(t) =>
            LET f == Top(thr[t]) IN
            /\ Returns(t) => thr'[t].ret.ok
            /\ (f.pc = "cache_get" /\ CacheHolds(f.name)) =>
                  /\ Returns(t)
                  /\ thr'[t].ret.val = Some(feed_cache[f.name].data)
            /\ (f.pc = "cache_get" /\ ~CacheHolds(f.name)) => ~Returns(t)
            /\ (f.pc = "storage_get" /\ Returns(t)) =>
                  /\ thr'[t].ret.val = None
                  /\ repo.storage = None
            /\ f.pc = "backfill" =>
                  /\ Returns(t)
                  /\ thr'[t].ret.val = repo.storage
                  /\ IsSome(repo.storage)
                  /\ f.name \in DOMAIN feed_cache'
                  /\ feed_cache'[f.name].data = Unwrap(repo.storage)
                  /\ feed_cache'[f.name].expires_at = clock + default_ttl
            /\ (Returns(t) /\ f.prev.call.fn = "save_feed") =>
                  thr'[t].ret.val = Some(f.prev.call.feed)]_vars

\* a get_feed served by the storage after the cached copy of a saved feed had
\* expired, then a get_feed served by the cache
C31_Witness ==
    /\ Idle(thr["w1"])
    /\ thr["w1"].last.call.fn = "get_feed_from_cache_or_storage"
    /\ thr["w1"].last.call.pc = "cache_get"
    /\ thr["w1"].last.call.prev.call.fn = "get_feed_from_cache_or_storage"
    /\ thr["w1"].last.call.prev.call.pc = "backfill"
    /\ thr["w1"].last.call.prev.call.prev.call.fn = "save_feed"
    /\ thr["w1"].last.ret = thr["w1"].last.call.prev.ret
    /\ feed_stats.expirations > 0

(***************************************************************************)
(* SpecOtherFeed: the feed news is in the tree (add_feed has run, alone);  *)
(* two threads call add_feed, add_error_placeholder and remove_feed for    *)
(* other feed names, in any interleaving.  The names are tech and "/", the *)
(* name of the root node, which Config::validate accepts as a feed name.   *)
(***************************************************************************)
MaxOtherOps == 2

News == <<"n", "e", "w", "s">>
NewsFeed == Feed(News, <<Art("N")>>)

\* the inode manager after add_feed(NewsFeed) on a new filesystem
WithNews ==
    LET dir == Created(MetaStructure, RootIno, News, FeedDirectory(News)) IN
    Created(dir, MetaStructure.next_ino, markdown_filename(Art("N")),
            ArticleFile(News, Art("N")))

OtherNames == {Tech, RootName}

CallOnOtherFeed(t) ==
    \E feed_name \in OtherNames :
        \/ Issue(t, AddFeedFrame(Feed(feed_name, <<Art("A")>>), DirIno(feed_name)))
        \/ Issue(t, AddErrorPlaceholderFrame(feed_name, "Network"))
        \/ Issue(t, RemoveFeedFrame(feed_name))

InitOtherFeed ==
    /\ nodes = WithNews.nodes
    /\ next_ino = WithNews.next_ino
    /\ name_to_ino = WithNews.name_to_ino
    /\ allocated = WithNews.allocated
    /\ feeds = MapInsert(EmptyMap, News, NewsFeed)
    /\ loading_status = MapInsert(EmptyMap, News, Loaded)
    /\ removedNonEmpty = FALSE
    /\ thr = [t \in Threads |-> IdleThread]
    /\ NoMount
    /\ rdr = ReaderOff
    /\ callers = Writers
    /\ opsLeft = MaxOtherOps

NextOtherFeed ==
    \/ \E t \in Writers : CallOnOtherFeed(t)
    \/ \E t \in Threads : ThreadStep(t)

SpecOtherFeed == InitOtherFeed /\ [][NextOtherFeed]_vars

Ids(articles) == [i \in DOMAIN articles |-> articles[i].id]
RemoveKeys(m, ks) == [x \in (DOMAIN m) \ ks |-> m[x]]

RECURSIVE InsertArticles(_, _)
InsertArticles(stored, articles) ==
    IF articles = <<>> THEN stored
    ELSE InsertArticles(MapInsert(stored, Head(articles).id, Head(articles)), Tail(articles))

MemoryStorage_store_feed(mem, feed) ==
    [feeds |-> MapInsert(mem.feeds, feed.name, feed),
     articles |-> InsertArticles(mem.articles, feed.articles)]

MemoryStorage_get_article(mem, article_id) == MapGet(mem.articles, article_id)

\* keys is articles.keys() in the order the HashMap gives them
MemoryStorage_list_articles(mem, feed_name, keys) ==
    IF feed_name \in DOMAIN mem.feeds THEN Ids(mem.feeds[feed_name].articles) ELSE keys

MemoryStorage_remove_feed(mem, name) ==
    LET article_ids_to_remove ==
            IF name \in DOMAIN mem.feeds THEN Range(Ids(mem.feeds[name].articles)) ELSE {}
    IN  [feeds |-> MapRemove(mem.feeds, name),
         articles |-> RemoveKeys(mem.articles, article_ids_to_remove)]

MemoryStorage_remove_article(mem, article_id) ==
    [mem EXCEPT !.articles = MapRemove(@, article_id)]

(***************************************************************************)
(* ArticleRepository and FeedRepository::delete_feed for Repository        *)
(* (src/src/storage/repository.rs), over the caches and the storage.       *)
(***************************************************************************)
RepoNow ==
    [feed_cache |-> feed_cache, feed_stats |-> feed_stats, article_cache |-> article_cache,
     article_stats |-> article_stats, uses |-> uses, memory |-> memory]

\* Repository::get_article: the article cache, then the storage and the cache's backfill
get_article(st, article_id, now) ==
    LET g == ArticleCache_get(st.article_cache, st.article_stats, article_id, now)
        looked == [st EXCEPT !.article_cache = g.cache, !.article_stats = g.stats]
        article == MemoryStorage_get_article(st.memory, article_id)
        p == ArticleCache_put(looked.article_cache, looked.article_stats, article_id,
                              Unwrap(article), now)
    IN  IF IsSome(g.ret)
        THEN [st |-> [looked EXCEPT !.uses = Touch(@, article_id)], ret |-> g.ret]
        ELSE IF IsSome(article)
        THEN [st |-> [looked EXCEPT !.article_cache = p.cache, !.article_stats = p.stats,
                                    !.uses = Touch(@, article_id)],
              ret |-> article]
        ELSE [st |-> looked, ret |-> None]

\* ArticleQuery; the filters on content, author, tags and dates are not set
ArticleQuery(feed_name, title_contains, limit, offset) ==
    [feed_name |-> feed_name, title_contains |-> title_contains, limit |-> limit,
     offset |-> offset]

DefaultLimit == 50
unwrap_or(o, d) == IF IsSome(o) THEN Unwrap(o) ELSE d

Lower(c) == CASE c = "A" -> "a" [] c = "B" -> "b" [] c = "N" -> "n" [] OTHER -> c
to_lowercase(s) == [i \in DOMAIN s |-> Lower(s[i])]
contains(s, pat) == \E i \in 0..(Len(s) - Len(pat)) : SubSeq(s, i + 1, i + Len(pat)) = pat

\* the filters of search_articles on one article
Matches(article, query) ==
    IsSome(query.title_contains) =>
        contains(to_lowercase(article.title), to_lowercase(Unwrap(query.title_contains)))

RECURSIVE Concat(_)
Concat(seqs) == IF seqs = <<>> THEN <<>> ELSE Head(seqs) \o Concat(Tail(seqs))

\* the candidate ids: those of the query's feed, or those of every feed in the
\* order list_feeds gives the feeds
Candidates(mem, query, feed_order, keys) ==
    IF IsSome(query.feed_name)
    THEN MemoryStorage_list_articles(mem, Unwrap(query.feed_name), keys)
    ELSE Concat([k \in DOMAIN feed_order |->
                    MemoryStorage_list_articles(mem, feed_order[k], keys)])

\* for (i, article_id) in article_ids.iter().enumerate() { .. }
RECURSIVE SearchLoop(_, _, _, _, _, _)
SearchLoop(st, article_ids, i, results, query, now) ==
    IF article_ids = <<>> THEN [st |-> st, ret |-> results]
    ELSE IF i < unwrap_or(query.offset, 0)
    THEN SearchLoop(st, Tail(article_ids), i + 1, results, query, now)
    ELSE IF Len(results) >= unwrap_or(query.limit, DefaultLimit)
    THEN [st |-> st, ret |-> results]
    ELSE LET g == get_article(st, Head(article_ids), now) IN
         SearchLoop(g.st, Tail(article_ids), i + 1,
                    IF IsSome(g.ret) /\ Matches(Unwrap(g.ret), query)
                    THEN Append(results, Unwrap(g.ret)) ELSE results,
                    query, now)

search_articles(st, query, feed_order, keys, now) ==
    SearchLoop(st, Candidates(st.memory, query, feed_order, keys), 0, <<>>, query, now)

RECURSIVE RemoveFromCache(_, _)
RemoveFromCache(st, article_ids) ==
    IF article_ids = <<>> THEN st
    ELSE LET r == ArticleCache_remove(st.article_cache, st.article_stats, Head(article_ids)) IN
         RemoveFromCache([st EXCEPT !.article_cache = r.cache, !.article_stats = r.stats],
                         Tail(article_ids))

RECURSIVE RemoveFromStorage(_, _)
RemoveFromStorage(mem, article_ids) ==
    IF article_ids = <<>> THEN mem
    ELSE RemoveFromStorage(MemoryStorage_remove_article(mem, Head(article_ids)),
                           Tail(article_ids))

delete_feed_articles(st, feed_name, keys) ==
    LET article_ids == MemoryStorage_list_articles(st.memory, feed_name, keys)
        uncached == RemoveFromCache(st, article_ids)
    IN  [st |-> [uncached EXCEPT !.memory = RemoveFromStorage(@, article_ids)],
         ret |-> Ok(Len(article_ids))]

delete_feed(st, name, keys) ==
    LET f == FeedCache_remove(st.feed_cache, st.feed_stats, name)
        article_ids == MemoryStorage_list_articles(st.memory, name, keys)
        uncached == RemoveFromCache([st EXCEPT !.feed_cache = f.feeds, !.feed_stats = f.stats],
                                    article_ids)
    IN  [st |-> [uncached EXCEPT !.memory = MemoryStorage_remove_feed(@, name)],
         ret |-> Ok(None)]

(***************************************************************************)
(* SpecStorage: one caller of the storage and of the repository over it.   *)
(* It stores feeds tech and news, removes them, reads and searches the     *)
(* articles and deletes the articles of a feed, in any order.              *)
(***************************************************************************)
MaxStorageOps == 3

StorageNames == {Tech, News}
StorageFeeds ==
    {Feed(Tech, <<Titled("1", <<"B">>), Titled("2", <<"A">>), Titled("3", <<"a", "b">>)>>),
     Feed(Tech, <<Titled("1", <<"B">>)>>),
     NewsFeed}
StorageArticleIds == UNION {Range(Ids(f.articles)) : f \in StorageFeeds}
Queries ==
    {ArticleQuery(feed_name, title_contains, limit, offset) :
        feed_name \in {None, Some(Tech)}, title_contains \in {None, Some(<<"A">>)},
        limit \in {None, Some(1)}, offset \in {None, Some(1)}}

\* the ids stored under each feed name by the store_feed calls so far
StoredSoFar == IF obs = <<>> THEN EmptyMap ELSE obs[Len(obs)].stored
StoredUnder(stored, name) == IF name \in DOMAIN stored THEN stored[name] ELSE {}

\* the call returns: the caches and the storage as it leaves them, and its record
StorageCall(t, op, arg, r, stored) ==
    /\ CanCall(t)
    /\ opsLeft' = opsLeft - 1
    /\ feed_cache' = r.st.feed_cache
    /\ feed_stats' = r.st.feed_stats
    /\ article_cache' = r.st.article_cache
    /\ article_stats' = r.st.article_stats
    /\ uses' = r.st.uses
    /\ memory' = r.st.memory
    /\ obs' = Observe([op |-> op, arg |-> arg, before |-> memory, stored |-> stored,
                       ret |-> r.ret])
    /\ UNCHANGED <<treeVars, histVars, thr, rdr, callers, mountVars, clock, disk, commands,
                   session, locks>>

CallStoreFeed(t) ==
    \E feed \in StorageFeeds :
        StorageCall(t, "store_feed", feed,
                    [st |-> [RepoNow EXCEPT !.memory = MemoryStorage_store_feed(@, feed)],
                     ret |-> Ok(None)],
                    MapInsert(StoredSoFar, feed.name,
                              StoredUnder(StoredSoFar, feed.name) \cup Range(Ids(feed.articles))))

CallStorageRemoveFeed(t) ==
    \E name \in StorageNames :
        StorageCall(t, "remove_feed", name,
                    [st |-> [RepoNow EXCEPT !.memory = MemoryStorage_remove_feed(@, name)],
                     ret |-> Ok(None)],
                    StoredSoFar)

CallSearchArticles(t) ==
    \E query \in Queries, feed_order \in Orders(DOMAIN memory.feeds),
       keys \in Orders(DOMAIN memory.articles) :
        LET r == search_articles(RepoNow, query, feed_order, keys, clock) IN
        StorageCall(t, "search_articles",
                    [query |-> query,
                     candidates |-> Candidates(memory, query, feed_order, keys)],
                    [st |-> r.st, ret |-> Ok(r.ret)], StoredSoFar)

CallDeleteFeedArticles(t) ==
    \E feed_name \in StorageNames, keys \in Orders(DOMAIN memory.articles) :
        StorageCall(t, "delete_feed_articles", feed_name,
                    delete_feed_articles(RepoNow, feed_name, keys), StoredSoFar)

CallDeleteFeed(t) ==
    \E name \in StorageNames, keys \in Orders(DOMAIN memory.articles) :
        StorageCall(t, "delete_feed", name, delete_feed(RepoNow, name, keys), StoredSoFar)

InitStorage ==
    /\ InitTree
    /\ rdr = ReaderOff
    /\ callers = {"w1"}
    /\ opsLeft = MaxStorageOps
    /\ env = AnswersOn
    /\ repo = [storage |-> None, fetcher |-> <<"fails">>]
    /\ failedOnLoaded = FALSE
    /\ clock = 0
    /\ disk = NoDisk
    /\ CachesBuiltFrom(NoDisk)
    /\ obs = <<>>
    /\ commands = <<>>
    /\ session = NoSession
    /\ memory = NewMemory
    /\ locks = NoLocks

NextStorage ==
    \/ CallStoreFeed("w1")
    \/ CallStorageRemoveFeed("w1")
    \/ CallSearchArticles("w1")
    \/ CallDeleteFeedArticles("w1")
    \/ CallDeleteFeed("w1")

SpecStorage == InitStorage /\ [][NextStorage]_vars

LastCall == obs[Len(obs)]
Returned(op) == obs # <<>> /\ LastCall.op = op

\* the candidates the storage holds, filtered by the query
MatchesOf(mem, candidates, query) ==
    SelectSeq([i \in DOMAIN candidates |-> MapGet(mem.articles, candidates[i])],
              LAMBDA a : IsSome(a) /\ Matches(Unwrap(a), query))

\* C33: search_articles returns the matching candidates, in candidate order,
\* less the first offset matches and cut to limit (50 and 0 when not given).
C33_PagesOverMatches ==
    Returned("search_articles") =>
        LET query == LastCall.arg.query
            found == MatchesOf(LastCall.before, LastCall.arg.candidates, query)
            offset == unwrap_or(query.offset, 0)
            limit == unwrap_or(query.limit, DefaultLimit)
        IN  LastCall.ret.val =
                [i \in 1..Min(limit, IF Len(found) > offset THEN Len(found) - offset ELSE 0) |->
                    Unwrap(found[offset + i])]

\* C34: when remove_feed(name) has returned, the storage holds neither the feed
\* nor any article some store_feed has stored under that name; and no article
\* at all when no feed of another name was ever stored.
C34_RemoveFeedRemovesItsArticles ==
    Returned("remove_feed") =>
        LET name == LastCall.arg IN
        /\ name \notin DOMAIN memory.feeds
        /\ \A article_id \in StoredUnder(LastCall.stored, name) :
               article_id \notin DOMAIN memory.articles
        /\ (DOMAIN LastCall.stored \subseteq {name}) => MapLen(memory.articles) = 0

\* the articles of the feeds the storage holds under another name
ArticlesOfOthers(mem, feed_name) ==
    UNION {Range(Ids(mem.feeds[g].articles)) : g \in (DOMAIN mem.feeds) \ {feed_name}}

\* C37: when delete_feed_articles(F) or delete_feed(F) has returned, get_article
\* still returns every article of every other feed, and delete_feed_articles has
\* returned the number of F's articles.
C37_DeletesOnlyItsFeed ==
    (Returned("delete_feed_articles") \/ Returned("delete_feed")) =>
        LET feed_name == LastCall.arg
            before == LastCall.before
        IN  /\ \A article_id \in ArticlesOfOthers(before, feed_name) :
                   get_article(RepoNow, article_id, clock).ret =
                       MapGet(before.articles, article_id)
            /\ Returned("delete_feed_articles") =>
                   LastCall.ret.val = IF feed_name \in DOMAIN before.feeds
                                      THEN Len(before.feeds[feed_name].articles) ELSE 0

(***************************************************************************)
(* SpecMounted: the mount command has put the loading placeholder of tech  *)
(* into the tree.  mount_foreground mounts the filesystem and, at any time *)
(* before or after, a task adds the feed through the filesystem handle it  *)
(* shares with the mount command; the kernel sends lookup and getattr      *)
(* requests to the mounted filesystem while it is registered.              *)
(***************************************************************************)
WithPlaceholder ==
    LET dir == Created(MetaStructure, RootIno, Tech, FeedDirectory(Tech)) IN
    Created(dir, MetaStructure.next_ino, markdown_filename(LoadingArticle(Tech)),
            ArticleFile(Tech, LoadingArticle(Tech)))

CallMountOnce ==
    /\ thr["main"].last.call = NoCall
    /\ CallMountForeground

CallAddFeedOnce ==
    /\ thr["w1"].last.call = NoCall
    /\ Issue("w1", AddFeedFrame(Feed(Tech, CachedArticles), DirIno(Tech)))

Serving == session.registered = Some(TRUE) /\ env.listed

InitMounted ==
    /\ nodes = WithPlaceholder.nodes
    /\ next_ino = WithPlaceholder.next_ino
    /\ name_to_ino = WithPlaceholder.name_to_ino
    /\ allocated = WithPlaceholder.allocated
    /\ feeds = EmptyMap
    /\ loading_status = MapInsert(EmptyMap, Tech, Loading)
    /\ removedNonEmpty = FALSE
    /\ thr = [t \in Threads |-> IdleThread]
    /\ rdr = KernelIdle
    /\ callers = {"main", "w1"}
    /\ opsLeft = 2
    /\ env = AnswersOn
    /\ repo = [storage |-> None, fetcher |-> <<"fails">>]
    /\ failedOnLoaded = FALSE
    /\ clock = 0
    /\ disk = NoDisk
    /\ CachesBuiltFrom(NoDisk)
    /\ obs = <<>>
    /\ commands = <<>>
    /\ session = NoSession
    /\ memory = NewMemory
    /\ locks = NoLocks

NextMounted ==
    \/ CallMountOnce
    \/ CallAddFeedOnce
    \/ \E t \in Threads : ThreadStep(t)
    \/ Serving /\ Lookup
    \/ Serving /\ GetAttr
    \/ Serving /\ ReplyWithTtl

SpecMounted == InitMounted /\ [][NextMounted]_vars

AddFeedCompleted ==
    /\ Idle(thr["w1"])
    /\ thr["w1"].last.call.fn = "add_feed"
    /\ thr["w1"].last.ret.ok

\* C35: once add_feed(tech) has completed through the shared handle, the mounted
\* filesystem answers a lookup or getattr of tech's directory with TTL 30 and of
\* one of its files with TTL 60.
C35_MountedSeesLoaded ==
    [][(AddFeedCompleted /\ rdr.pc = "get_ttl_for_node" /\ rdr'.obs.seen
          /\ rdr.node.node_type.feed = Some(Tech))
       => rdr'.obs.ttl = IF rdr.node.node_type.tag = "FeedDirectory" THEN 30 ELSE 60]_vars

\* the directory of tech lists the files of these articles and nothing else
TreeShows(articles) ==
    LET dir == get_node_by_name(RootIno, Tech) IN
    /\ IsSome(dir)
    /\ Listing(list_children(Unwrap(dir).ino)).names = FileNames(articles)

\* the background-refresh task has fetched tech, put it into the tree and
\* finished, and no periodic refresh has begun: the feed cache holds what it fetched
RefreshCompleted ==
    /\ Idle(thr["bg"]) /\ thr["bg"].last.call.fn = "bg_refresh"
    /\ Idle(thr["ptask"])
    /\ ~Idle(thr["per"]) /\ Top(thr["per"]).pc = "warmup"
    /\ Tech \in DOMAIN feed_cache
    /\ feed_cache[Tech].data.articles = FetchedArticles

\* C36: in the mount flow, once the directory of tech lists the fetched
\* articles it never again lists the articles taken from the cache: after the
\* refresh of tech has completed, the directory does not list the cached articles.
C36_FreshNeverReverted ==
    RefreshCompleted => ~TreeShows(CachedArticles)

(***************************************************************************)
(* SpecRestart: a process whose caches hold entries saves them to the disk *)
(* while the clock runs; after a save the process ends and the next one    *)
(* builds its caches from the disk (CacheManager::with_persistence).       *)
(***************************************************************************)
Restart ==
    /\ Quiescent
    /\ obs # <<>> /\ obs[Len(obs)].op = "save" /\ obs[Len(obs)].ret.ok
    /\ \E order \in LoadOrders(disk, clock) :
          LET w == with_persistence(MountMaxEntries, disk, clock, order) IN
          /\ w.res.ok
          /\ feed_cache' = w.caches.feed_cache
          /\ feed_stats' = w.caches.feed_stats
          /\ article_cache' = w.caches.article_cache
          /\ article_stats' = w.caches.article_stats
          /\ uses' = w.caches.uses
          /\ obs' = Observe([op |-> "restart", at |-> clock, disk |-> disk, ret |-> w.res])
    /\ UNCHANGED <<treeVars, histVars, thr, rdr, callers, opsLeft, mountVars, clock, disk,
                   commands, session, memory, locks>>

InitRestart == InitSnapshot /\ disk = NoDisk

NextRestart ==
    \/ CallSaveToDisk("w1")
    \/ \E t \in Threads : ThreadStep(t)
    \/ Tick
    \/ Restart

SpecRestart == InitRestart /\ [][NextRestart]_vars

SavedThenRestarted == Len(obs) = 2 /\ obs[1].op = "save" /\ obs[2].op = "restart"

\* C38: every entry the caches hold after the restart was in the caches that
\* were saved, and its expires_at is no later than the one it had then.
C38_ReloadNeverExtends ==
    SavedThenRestarted =>
        /\ \A k \in DOMAIN feed_cache :
               /\ k \in DOMAIN obs[1].feeds
               /\ feed_cache[k].expires_at <= obs[1].feeds[k].expires_at
        /\ \A i \in DOMAIN article_cache.lru :
               /\ article_cache.lru[i].key \in DOMAIN obs[1].articles
               /\ article_cache.lru[i].entry.expires_at
                      <= obs[1].articles[article_cache.lru[i].key].expires_at

(***************************************************************************)
(* Config (src/src/config.rs): load, validate and the overrides from the   *)
(* environment.  A configuration file is absent, or does not deserialize,  *)
(* or deserializes to a Config; of a Config the model keeps the feeds, the *)
(* two settings validate looks at, and the log level.                      *)
(***************************************************************************)
Config(feed_urls, refresh_interval, max_articles, level) ==
    [feeds |-> feed_urls,
     settings |-> [refresh_interval |-> refresh_interval, max_articles |-> max_articles],
     logging |-> [level |-> level]]

Digits == <<"0", "1", "2", "3", "4", "5", "6", "7", "8", "9">>
IsDigit(c) == \E d \in DOMAIN Digits : Digits[d] = c
DigitValue(c) == (CHOOSE d \in DOMAIN Digits : Digits[d] = c) - 1
Letters == {"a", "b", "c", "h", "p", "t", "x"}

RECURSIVE DecimalValue(_, _)
DecimalValue(s, acc) ==
    IF s = <<>> THEN acc ELSE DecimalValue(Tail(s), 10 * acc + DigitValue(Head(s)))

\* str::parse::<u64>() and ::<usize>(): an optional "+", then one digit or more
\* (the values of the model are far below the width of the types)
parse(s) ==
    LET digits == IF s # <<>> /\ Head(s) = "+" THEN Tail(s) ELSE s IN
    IF digits # <<>> /\ \A i \in DOMAIN digits : IsDigit(digits[i])
    THEN Ok(DecimalValue(digits, 0))
    ELSE Err("ParseIntError")

\* url::Url::parse: an absolute URL starts with a scheme, letters up to a ":"
Url_parse(url) ==
    IF \E i \in 2..Len(url) : url[i] = ":" /\ \A j \in 1..(i - 1) : url[j] \in Letters
    THEN Ok(url) ELSE Err("RelativeUrlWithoutBase")

\* Config::validate
validate(config) ==
    IF \E name \in DOMAIN config.feeds : name = <<>> THEN Err("Invalid")
    ELSE IF \E name \in DOMAIN config.feeds : ~Url_parse(config.feeds[name]).ok
    THEN Err("InvalidUrl")
    ELSE IF config.settings.refresh_interval = 0 THEN Err("Invalid")
    ELSE IF config.settings.max_articles = 0 THEN Err("Invalid")
    ELSE Ok(None)

\* Config::apply_env_overrides; environ is the environment, None for a variable not set
apply_env_overrides(config, environ) ==
    LET interval == IF IsSome(environ.RSS_FUSE_REFRESH_INTERVAL)
                    THEN parse(Unwrap(environ.RSS_FUSE_REFRESH_INTERVAL)) ELSE Err("NotPresent")
        max_articles == IF IsSome(environ.RSS_FUSE_MAX_ARTICLES)
                        THEN parse(Unwrap(environ.RSS_FUSE_MAX_ARTICLES)) ELSE Err("NotPresent")
    IN  [config EXCEPT
            !.settings.refresh_interval = IF interval.ok THEN interval.val ELSE @,
            !.logging.level = IF IsSome(environ.RSS_FUSE_LOG_LEVEL)
                              THEN Unwrap(environ.RSS_FUSE_LOG_LEVEL) ELSE @,
            !.settings.max_articles = IF max_articles.ok THEN max_articles.val ELSE @]

\* Config::load
Config_load(file) ==
    IF ~IsSome(file) THEN Err("NotFound")
    ELSE IF ~Unwrap(file).ok THEN Err("Toml")
    ELSE LET config == Unwrap(file).val
             valid == validate(config)
         IN  IF valid.ok THEN Ok(config) ELSE valid

\* Config::load_with_env
load_with_env(file, environ) ==
    LET loaded == Config_load(file) IN
    IF loaded.ok THEN Ok(apply_env_overrides(loaded.val, environ)) ELSE loaded

(***************************************************************************)
(* SpecConfig: load and load_with_env, called on the configuration files   *)
(* and the environments below.                                             *)
(***************************************************************************)
MaxConfigOps == 1

HttpUrl == <<"h", "t", "t", "p", ":", "/", "/", "x">>
FeedMaps ==
    {EmptyMap, MapInsert(EmptyMap, Tech, HttpUrl), MapInsert(EmptyMap, <<>>, HttpUrl),
     MapInsert(EmptyMap, Tech, <<"x">>)}
ConfigFiles ==
    {None, Some(Err("Toml"))}
    \cup {Some(Ok(Config(feed_urls, refresh_interval, max_articles, <<"i", "n", "f", "o">>))) :
             feed_urls \in FeedMaps, refresh_interval \in {0, 300}, max_articles \in {0, 100}}
NumberTexts == {None, Some(<<"0">>), Some(<<"6", "0">>), Some(<<"+", "5">>), Some(<<"-", "1">>),
                Some(<<"a", "b", "c">>), Some(<<>>)}
EnvVars ==
    [RSS_FUSE_REFRESH_INTERVAL : NumberTexts, RSS_FUSE_MAX_ARTICLES : NumberTexts,
     RSS_FUSE_LOG_LEVEL : {None, Some(<<"d", "e", "b", "u", "g">>)}]

ConfigCall(t, rec) ==
    /\ CanCall(t)
    /\ opsLeft' = opsLeft - 1
    /\ obs' = Observe(rec)
    /\ UNCHANGED <<treeVars, histVars, thr, rdr, callers, mountVars, clock, memVars, disk,
                   commands, session, memory, locks>>

CallConfigLoad(t) ==
    \E file \in ConfigFiles :
        ConfigCall(t, [op |-> "load", file |-> file, vars |-> None, ret |-> Config_load(file)])

CallLoadWithEnv(t) ==
    \E file \in ConfigFiles, environ \in EnvVars :
        ConfigCall(t, [op |-> "load_with_env", file |-> file, vars |-> Some(environ),
                       ret |-> load_with_env(file, environ)])

InitConfig ==
    /\ InitTree
    /\ NoServer
    /\ rdr = ReaderOff
    /\ callers = {"w1"}
    /\ opsLeft = MaxConfigOps
    /\ clock = 0
    /\ disk = NoDisk
    /\ CachesBuiltFrom(NoDisk)
    /\ obs = <<>>

NextConfig ==
    \/ CallConfigLoad("w1")
    \/ CallLoadWithEnv("w1")

SpecConfig == InitConfig /\ [][NextConfig]_vars

\* C40: a Config that load_with_env returns passes validate: its refresh
\* interval and its maximum of articles are greater than 0.
C40_LoadedConfigIsValid ==
    (Returned("load_with_env") /\ LastCall.ret.ok) =>
        /\ validate(LastCall.ret.val).ok
        /\ LastCall.ret.val.settings.refresh_interval > 0
        /\ LastCall.ret.val.settings.max_articles > 0

(***************************************************************************)
(* The RwLocks (parking_lot) and the order in which the code takes them.   *)
(* A call is the sequence of lock steps its code performs; locks.run[t]    *)
(* is what the call of thread t has still to do.  An exclusive lock is     *)
(* taken in two steps, as RawRwLock does: the writer bit is set as soon as *)
(* no other writer has it, then the writer waits until the readers have    *)
(* left; a shared lock is refused while the writer bit is set.             *)
(***************************************************************************)
MaxLockCalls == 1

Shared(l) == <<[act |-> "read", lock |-> l]>>
Exclusive(l) == <<[act |-> "claim", lock |-> l], [act |-> "drain", lock |-> l]>>
Drop(l) == <<[act |-> "unlock", lock |-> l]>>

\* InodeManager::allocate_ino: next_ino.write() for the body
allocate_ino_path == Exclusive("next_ino") \o Drop("next_ino")

\* InodeManager::get_node: nodes.read() for one statement
get_node_path == Shared("nodes") \o Drop("nodes")

\* InodeManager::get_node_by_name: name_to_ino.read() is a local, kept while
\* nodes.read() is taken when the name is there
get_node_by_name_path(found) ==
    IF found
    THEN Shared("name_to_ino") \o Shared("nodes") \o Drop("name_to_ino") \o Drop("nodes")
    ELSE Shared("name_to_ino") \o Drop("name_to_ino")

\* a create_node that keeps its nodes guard until the end of the function
create_node_keeps_nodes(outcome) ==
    CASE outcome = "no parent" -> get_node_path
      [] outcome = "exists" -> get_node_path \o get_node_by_name_path(TRUE)
      [] OTHER -> get_node_path \o get_node_by_name_path(FALSE) \o allocate_ino_path
                  \o Exclusive("nodes") \o Exclusive("name_to_ino")
                  \o Drop("name_to_ino") \o Drop("nodes")

\* InodeManager::create_node: the parent, the name, the number, then nodes.write()
\* in a block of its own and name_to_ino.write() for one statement
create_node_path(outcome) ==
    CASE outcome = "no parent" -> get_node_path
      [] outcome = "exists" -> get_node_path \o get_node_by_name_path(TRUE)
      [] OTHER -> get_node_path \o get_node_by_name_path(FALSE) \o allocate_ino_path
                  \o Exclusive("nodes") \o Drop("nodes")
                  \o Exclusive("name_to_ino") \o Drop("name_to_ino")

\* InodeManager::remove_node
remove_node_path(outcome) ==
    CASE outcome = "root" -> <<>>
      [] outcome = "not found" -> get_node_path
      [] OTHER -> get_node_path \o Exclusive("nodes") \o Drop("nodes")
                  \o Exclusive("name_to_ino") \o Drop("name_to_ino")

\* InodeManager::list_children
list_children_path == Shared("nodes") \o Drop("nodes")

\* InodeManager::update_node_size
update_node_size_path == Exclusive("nodes") \o Drop("nodes")

\* RssFuseFilesystem::remove_feed: the children of the directory (one here), the
\* directory, then feeds.write() for one statement
fs_remove_feed_path(present) ==
    (IF present
     THEN get_node_by_name_path(TRUE) \o list_children_path
          \o remove_node_path("removed") \o remove_node_path("removed")
     ELSE get_node_by_name_path(FALSE))
    \o Exclusive("feeds") \o Drop("feeds")

\* RssFuseFilesystem::add_feed of a feed without articles
fs_add_feed_path(present) ==
    Exclusive("loading_status") \o Drop("loading_status")
    \o fs_remove_feed_path(present)
    \o create_node_path("created")
    \o Exclusive("feeds") \o Drop("feeds")

\* RssFuseFilesystem::get_ttl_for_node: loading_status.read() for the match
get_ttl_for_node_path == Shared("loading_status") \o Drop("loading_status")

\* ArticleCache::get, put, put_with_ttl, remove, clear, cleanup_expired:
\* cache.write() then stats.write(), both locals
ArticleCache_update_path ==
    Exclusive("article_cache") \o Exclusive("article_stats")
    \o Drop("article_stats") \o Drop("article_cache")

\* ArticleCache::stats
ArticleCache_stats_path == Shared("article_stats") \o Drop("article_stats")

\* FeedCache::get, put, remove, clear, cleanup_expired
FeedCache_update_path ==
    Exclusive("feed_cache") \o Exclusive("feed_stats")
    \o Drop("feed_stats") \o Drop("feed_cache")

\* FeedCache::stats
FeedCache_stats_path == Shared("feed_stats") \o Drop("feed_stats")

\* CacheManager::save_to_disk: each map is cloned in a block of its own
save_to_disk_path ==
    Shared("feed_cache") \o Drop("feed_cache")
    \o Shared("article_cache") \o Drop("article_cache")

LockOps ==
    {"get_node", "get_node_by_name", "create_node", "remove_node", "list_children",
     "update_node_size", "fs_remove_feed", "fs_add_feed", "get_ttl_for_node",
     "ArticleCache_update", "ArticleCache_stats", "FeedCache_update", "FeedCache_stats",
     "save_to_disk"}

\* the lock steps a call can perform, one sequence for each way the call can go
LockPaths(op) ==
    CASE op = "get_node" -> {get_node_path}
      [] op = "get_node_by_name" -> {get_node_by_name_path(found) : found \in BOOLEAN}
      [] op = "create_node" ->
            {create_node_path(outcome) : outcome \in {"no parent", "exists", "created"}}
      [] op = "remove_node" ->
            {remove_node_path(outcome) : outcome \in {"not found", "removed"}}
      [] op = "list_children" -> {list_children_path}
      [] op = "update_node_size" -> {update_node_size_path}
      [] op = "fs_remove_feed" -> {fs_remove_feed_path(present) : present \in BOOLEAN}
      [] op = "fs_add_feed" -> {fs_add_feed_path(FALSE)}
      [] op = "get_ttl_for_node" -> {get_ttl_for_node_path}
      [] op = "ArticleCache_update" -> {ArticleCache_update_path}
      [] op = "ArticleCache_stats" -> {ArticleCache_stats_path}
      [] op = "FeedCache_update" -> {FeedCache_update_path}
      [] op = "FeedCache_stats" -> {FeedCache_stats_path}
      [] OTHER -> {save_to_disk_path}

InCall(t) == locks.run[t] # <<>>

\* a thread starts a call
LockCall(t) ==
    /\ ~InCall(t)
    /\ locks.calls[t] < MaxLockCalls
    /\ \E op \in LockOps : \E path \in LockPaths(op) :
           /\ path # <<>>
           /\ locks' = [locks EXCEPT !.run[t] = path, !.calls[t] = @ + 1]
    /\ UNCHANGED <<treeVars, histVars, thr, rdr, callers, opsLeft, restVarsButLocks>>

\* RawRwLock: whether the next lock step of a thread can be taken now
Granted(held, step) ==
    CASE step.act = "read" -> held[step.lock].writer = None
      [] step.act = "claim" -> held[step.lock].writer = None
      [] step.act = "drain" -> held[step.lock].readers = {}
      [] OTHER -> TRUE

Acquire(held, t, step) ==
    CASE step.act = "read" ->
            [held EXCEPT ![step.lock].readers = @ \cup {t}]
      [] step.act = "claim" ->
            [held EXCEPT ![step.lock].writer = Some(t)]
      [] step.act = "drain" -> held
      [] OTHER ->
            IF held[step.lock].writer = Some(t)
            THEN [held EXCEPT ![step.lock].writer = None]
            ELSE [held EXCEPT ![step.lock].readers = @ \ {t}]

\* a thread takes the next lock step of its call
LockStep(t) ==
    /\ InCall(t)
    /\ Granted(locks.held, Head(locks.run[t]))
    /\ locks' = [locks EXCEPT !.held = Acquire(@, t, Head(locks.run[t])),
                              !.run[t] = Tail(@)]
    /\ UNCHANGED <<treeVars, histVars, thr, rdr, callers, opsLeft, restVarsButLocks>>

InitLocks ==
    /\ InitTree
    /\ NoServer
    /\ rdr = ReaderOff
    /\ callers = LockThreads
    /\ opsLeft = 0
    /\ clock = 0
    /\ disk = NoDisk
    /\ CachesBuiltFrom(NoDisk)
    /\ obs = <<>>

NextLocks == \E t \in LockThreads : LockCall(t) \/ LockStep(t)

SpecLocks == InitLocks /\ [][NextLocks]_vars

Waiting(t) == InCall(t) /\ ~Granted(locks.held, Head(locks.run[t]))

\* C39: no interleaving of concurrent calls of the inode manager, of the
\* filesystem's feed operations and of the caches deadlocks: as long as a call
\* has not returned, some thread in a call can take its next step (every step
\* shortens what a call has left to do, so every call returns once the
\* threads that can run are run).
C39_NoDeadlock ==
    (\E t \in LockThreads : InCall(t)) =>
        \E t \in LockThreads : InCall(t) /\ ~Waiting(t)

\* a lookup by name holds the name index and waits for nodes behind a writer that
\* itself waits for a reader of nodes to leave
C39_Witness ==
    \E a, b, c \in LockThreads :
        /\ a # b /\ b # c /\ a # c
        /\ locks.held["nodes"].writer = Some(a)
        /\ b \in locks.held["nodes"].readers
        /\ c \in locks.held["name_to_ino"].readers
        /\ Waiting(a) /\ Waiting(c)
        /\ Head(locks.run[c]) = [act |-> "read", lock |-> "nodes"]

====
